---- MODULE Spec2Model ----
(***************************************************************************)
(* A model of the orchestration layer of image-sandbox (docker_cli /       *)
(* wigwam): tag prefixing, the build-all stage chain, workflow runs with   *)
(* their scratch directories, input resolution, the catalog search, the   *)
(* data fetch and its worker threads, bind mounts, the git Dockerfile      *)
(* builders and distrib.                                                   *)
(*                                                                         *)
(* Strings whose characters matter (tags, repository identifiers, input    *)
(* arguments, globs) are sequences of one-character strings.               *)
(***************************************************************************)
EXTENDS Integers, Sequences, FiniteSets, TLC

VARIABLES
    \* ---- tag commands (clone, insert, configure, compile, install, remove)
    tag_pc,         \* "idle" | "done"
    tag_arg,        \* the tag the user passed to the command
    tag_ignore,     \* remove's ignore_prefix flag
    tag_hist,       \* the commands applied: [arg, img], img handed to the backend
    \* ---- build_all
    b_pc,           \* "idle" | "building" | "returned" | "raised"
    b_args,         \* the arguments of the call
    b_stage,        \* the next stage to build, 1..4
    b_log,          \* the backend builds issued so far: [stage, tag, base]
    b_images,       \* the images dict, as the sequence of its keys
    b_result,       \* the keys of the returned dict, or NoResult
    \* ---- run_workflow, run_series_workflow and the host file system
    wf_mode,        \* "idle" | "single" | "series": the call being made
    wf_pc,          \* run_workflow: "idle" | "running" | "returned" | "raised"
    wf_call,        \* the arguments of the current run_workflow call
    wf_temp,        \* the temporary scratch directory of the current call, or 0
    wf_err,         \* the error the current call raised, or "none"
    wf_msg,         \* the message of that error, or <<>>
    wf_outcome,     \* how the backend run of the current call ended, or NoOutcome
    fs_temp,        \* the temporary directories that exist on the host
    temp_made,      \* how many temporary directories mkdtemp has made
    fs_dirs,        \* the other directories that exist on the host
    run_log,        \* the backend runs invoked so far
    ser_pc,         \* run_series_workflow: "idle" | "loop" | "done" | "raised"
    ser_info,       \* test_sequence_info
    ser_idx,        \* the position of the loop in test_sequence_info
    \* ---- get_input_files_for_test
    in_pc,          \* "idle" | "parsed" | "tables" | "returned" | "raised"
    in_kvps,        \* input_dirs: the [PATH] and [LABEL]:[PATH] arguments
    in_test,        \* the "inputs" field of the test
    in_caches,      \* cache_dirs, in the order given
    cache_fs,       \* the repositories each cache directory holds
    in_parsed,      \* what input_dict_parse returned
    in_tables,      \* what generate_search_tables returned
    in_result,      \* what search_for_inputs returned or raised
    \* ---- search_file, data_search, data_names
    se_pc,          \* "idle" | "returned" | "exited" | "raised"
    se_cmd,         \* the function called
    se_fields,      \* fields: the fields data_search keeps
    se_err,         \* the exception that ended the call, or "none"
    se_names,       \* names: the globs searched for
    se_tags,        \* tags: the tag sets searched for
    se_all,         \* the all flag of the call
    se_impl,        \* the package whose search_file was called
    se_items,       \* the items search_file returned
    \* ---- data_fetch and its worker threads
    df_pc,          \* "idle" | "starting" | "joining" | "returned" | "raised" | "exited"
    df_items,       \* data_values: what data_search returned
    df_mount,       \* mount_point: the bind mount of the cache
    df_no_cache,    \* the no_cache flag of the call
    df_tasks,       \* the state of each task: "created" | "running" | "done"
    df_idx,         \* the position of the start loop or of the join loop
    df_runs,        \* the backend runs the workers made
    df_req,         \* wigwam's data_fetch: names, tests and the tests' inputs
    \* ---- BindMount and the test command
    bm_pc,          \* "idle" | "built" | "raised": a BindMount construction
    bm_args,        \* the arguments of the construction
    bm_mount,       \* the mount constructed, or NoMount
    t_pc,           \* test: "idle" | "running" | "returned" | "raised"
    t_args,         \* the arguments of the test call
    t_err,          \* the error that left test, or "none"
    t_runs,         \* the backend runs test made
    \* ---- git_clone_dockerfile, github_checkout_dockerfile
    gd_pc,          \* "idle" | "returned" | "raised"
    gd_fn,          \* the builder called, or ""
    gd_repo,        \* git_repo / github_repo: the repository identifier
    gd_branch,      \* repo_branch
    gd_out,         \* what the builder returned or raised
    \* ---- distrib
    ds_pc,          \* "idle" | "building" | "returned" | "raised"
    ds_lib64,       \* the images whose $BUILD_PREFIX/lib64 exists
    ds_args,        \* the arguments of the call
    ds_probe,       \* the image test_image was run on, or NoTag
    ds_dockerfile,  \* the Dockerfile handed to Image.build
    ds_err          \* the error that left distrib, or "none"

tagVars == <<tag_pc, tag_arg, tag_ignore, tag_hist>>
buildVars == <<b_pc, b_args, b_stage, b_log, b_images, b_result>>
wfVars == <<wf_mode, wf_pc, wf_call, wf_temp, wf_err, wf_msg, wf_outcome, fs_temp, temp_made,
            fs_dirs, run_log, ser_pc, ser_info, ser_idx>>
inVars == <<in_pc, in_kvps, in_test, in_caches, cache_fs, in_parsed, in_tables,
            in_result>>
seVars == <<se_pc, se_cmd, se_fields, se_err, se_names, se_tags, se_all, se_impl, se_items>>
dfVars == <<df_pc, df_items, df_mount, df_no_cache, df_tasks, df_idx, df_runs, df_req>>
mtVars == <<bm_pc, bm_args, bm_mount, t_pc, t_args, t_err, t_runs>>
gdVars == <<gd_pc, gd_fn, gd_repo, gd_branch, gd_out>>
dsVars == <<ds_pc, ds_lib64, ds_args, ds_probe, ds_dockerfile, ds_err>>
vars == <<tagVars, buildVars, wfVars, inVars, seVars, dfVars, mtVars, gdVars, dsVars>>

\* What the actions of one part leave alone.
\* The command line names one command: no command has been dispatched yet.
CommandIdle == t_pc = "idle" /\ df_pc = "idle" /\ wf_mode = "idle"

TagFrame == UNCHANGED <<buildVars, wfVars, inVars, seVars, dfVars, mtVars, gdVars, dsVars>>
BuildFrame == UNCHANGED <<tagVars, wfVars, inVars, seVars, dfVars, mtVars, gdVars, dsVars>>
WorkflowFrame == UNCHANGED <<tagVars, buildVars, inVars, seVars, dfVars, mtVars, gdVars, dsVars>>
InputsFrame == UNCHANGED <<tagVars, buildVars, wfVars, seVars, dfVars, mtVars, gdVars, dsVars>>
SearchFrame == UNCHANGED <<tagVars, buildVars, wfVars, inVars, dfVars, mtVars, gdVars, dsVars>>
MountsFrame == UNCHANGED <<tagVars, buildVars, wfVars, inVars, seVars, dfVars, gdVars, dsVars>>
FetchFrame == UNCHANGED <<tagVars, buildVars, wfVars, inVars, seVars, mtVars, gdVars, dsVars>>
DockerGitFrame == UNCHANGED <<tagVars, buildVars, wfVars, inVars, seVars, dfVars, mtVars, dsVars>>
DistribFrame == UNCHANGED <<tagVars, buildVars, wfVars, inVars, seVars, dfVars, mtVars, gdVars>>

(***************************************************************************)
(* Strings                                                                 *)
(***************************************************************************)
\* str.startswith
StartsWith(s, p) == Len(s) >= Len(p) /\ SubSeq(s, 1, Len(p)) = p

\* All sequences over S of length at most n.
SeqsUpTo(S, n) == UNION {[1..k -> S] : k \in 0..n}

\* The set of the elements of a sequence.
Range(s) == {s[i] : i \in DOMAIN s}

NoTag == <<"?">>

(***************************************************************************)
(* Bind mounts                                                             *)
(***************************************************************************)
\* A path is written with the side it lies on: the code makes host paths
\* with Path.resolve() and Path.absolute() and image paths from the
\* install prefix or from what the image reports.
HostPath(text) == <<"host", text>>
ImagePath(text) == <<"image", text>>

\* The permissions a bind mount may have.
MountPermissions == {"ro", "rw"}

\* A mutant of BindMount: the permission is not checked.
BindMount_unchecked(src, dst, permissions) ==
    [error |-> "none", src |-> src, dst |-> dst, permissions |-> permissions]

\* BindMount(src, dst, permissions): src is the host side, dst the image
\* side; an unrecognized permission is a ValueError.
BindMount(src, dst, permissions) ==
    IF permissions \in MountPermissions
    THEN [error |-> "none", src |-> src, dst |-> dst, permissions |-> permissions]
    ELSE [error |-> "ValueError", src |-> src, dst |-> dst,
          permissions |-> permissions]

\* BindMount(host_mount_point, image_mount_point, permissions), the
\* keywords workflow_mounts uses.
BindMountAt(host_mount_point, image_mount_point, permissions) ==
    BindMount(host_mount_point, image_mount_point, permissions)

NoMount == [error |-> "none", src |-> <<>>, dst |-> <<>>, permissions |-> ""]

\* BindMount.mount_string(): "src:dst:permissions"
mount_string(mount) == <<mount.src, ":", mount.dst, ":", mount.permissions>>

\* The mount strings of a list of bind mounts, as the backend receives it.
mount_strings(bind_mounts) ==
    [i \in DOMAIN bind_mounts |-> mount_string(bind_mounts[i])]

(***************************************************************************)
(* Tag prefixing                                                           *)
(***************************************************************************)
\* The process-wide tag prefix.
universal_tag_prefix == <<"w", "g">>

MaxTagLen == 3
TagChars == {"w", "g", "-", "x"}
Tags == SeqsUpTo(TagChars, MaxTagLen)

\* A mutant of the prefixing rule: the prefix is always prepended.
resolve_always_prepend(tag) == universal_tag_prefix \o <<"-">> \o tag

\* img_tag = tag if tag.startswith(prefix) else f"{prefix}-{tag}"
resolve(tag) ==
    IF StartsWith(tag, universal_tag_prefix)
    THEN tag
    ELSE universal_tag_prefix \o <<"-">> \o tag

\* search = tag if (tag.startswith(prefix) or ignore_prefix) else f"{prefix}-{tag}"
remove_search(tag, ignore_prefix) ==
    IF ignore_prefix THEN tag ELSE resolve(tag)

TagInit ==
    /\ tag_pc = "idle"
    /\ tag_arg \in Tags
    /\ tag_ignore \in BOOLEAN
    /\ tag_hist = <<>>

TagIdle ==
    /\ tag_pc = "idle"
    /\ tag_arg = <<>>
    /\ tag_ignore = FALSE
    /\ tag_hist = <<>>

MaxTagCommands == 2

\* clone, insert, configure, compile and install hand resolve(tag) to the
\* backend as the tag of the image they build.
TagCommand ==
    /\ tag_pc = "idle"
    /\ Len(tag_hist) < MaxTagCommands
    /\ tag_ignore = FALSE
    /\ tag_hist' = Append(tag_hist, [arg |-> tag_arg, img |-> resolve(tag_arg)])
    /\ tag_pc' = "done"
    /\ UNCHANGED <<tag_arg, tag_ignore>>
    /\ TagFrame

\* remove searches the backend for remove_search(tag, ignore_prefix).
Remove ==
    /\ tag_pc = "idle"
    /\ Len(tag_hist) < MaxTagCommands
    /\ tag_hist' = Append(tag_hist,
                          [arg |-> tag_arg,
                           img |-> remove_search(tag_arg, tag_ignore)])
    /\ tag_pc' = "done"
    /\ UNCHANGED <<tag_arg, tag_ignore>>
    /\ TagFrame

\* The user passes the tag a command produced to the next command.
ReuseTag ==
    /\ tag_pc = "done"
    /\ Len(tag_hist) < MaxTagCommands
    /\ tag_arg' = tag_hist[Len(tag_hist)].img
    /\ tag_pc' = "idle"
    /\ UNCHANGED <<tag_ignore, tag_hist>>
    /\ TagFrame

TagNext == TagCommand \/ Remove \/ ReuseTag

(***************************************************************************)
(* build_all                                                               *)
(***************************************************************************)
NoPath == <<"?">>
NoResult == <<"?">>
NoRepo == <<"?">>
NoArgs == [tag |-> <<>>, base |-> <<>>, copy_path |-> NoPath, repo |-> NoRepo]

\* The characters of [a-zA-Z0-9-].
RepoNameChars == {"u", "r", "-"}
\* Repository identifiers: well formed, without a slash, with an empty
\* part, with two slashes.
RepoIds == { <<"u", "/", "r">>, <<"u", "-", "/", "r">>, <<"u", "r">>,
             <<"u", "/">>, <<"/", "r">>, <<"u", "/", "r", "/", "r">> }

\* re.match(r"^(?P<user>[a-zA-Z0-9-]+)\/(?P<repo>[a-zA-Z0-9-]+)$", repo)
\* "$" matches at the end of the string and also just before a newline
\* that ends it.
RegexEnd(repo) ==
    IF repo # <<>> /\ repo[Len(repo)] = "\n" THEN Len(repo) - 1 ELSE Len(repo)

github_repo_match(repo) ==
    \E i \in 1..RegexEnd(repo) :
        /\ repo[i] = "/"
        /\ i > 1
        /\ i < RegexEnd(repo)
        /\ \A j \in 1..RegexEnd(repo) : j # i => repo[j] \in RepoNameChars

GitRepoSuffix == <<"-", "g", "i", "t", "-", "r", "e", "p", "o">>
FileSuffix == <<"-", "f", "i", "l", "e", "-">>
ConfiguredSuffix == <<"-", "c", "o", "n", "f", "i", "g", "u", "r", "e", "d">>
BuiltSuffix == <<"-", "b", "u", "i", "l", "t">>
InstalledSuffix == <<"-", "i", "n", "s", "t", "a", "l", "l", "e", "d">>

BaseTags == { <<"b">> }
\* top_dir of the copied path
CopyPaths == { <<"s">> }

\* The tag build_all passes to each stage.
build_all_tag(args, stage) ==
    LET root == universal_tag_prefix \o <<"-">> \o args.tag
    IN CASE stage = "insert"    -> root \o FileSuffix \o args.copy_path
         [] stage = "clone"     -> root \o GitRepoSuffix
         [] stage = "configure" -> root \o ConfiguredSuffix
         [] stage = "compile"   -> root \o BuiltSuffix
         [] stage = "install"   -> root \o InstalledSuffix

\* A mutant of the choice of the source stage: a repository that is given
\* and well formed is cloned, whatever copy_path is.
build_all_source_repo_first(args) ==
    IF github_repo_match(args.repo) THEN "clone" ELSE "insert"

\* is_insert = copy_path is not None
build_all_source(args) ==
    IF args.copy_path # NoPath THEN "insert" ELSE "clone"

\* The stage build_all runs at each position.
build_all_stage(args, k) ==
    CASE k = 1 -> build_all_source(args)
      [] k = 2 -> "configure"
      [] k = 3 -> "compile"
      [] k = 4 -> "install"

\* A mutant of the chain: compile is built from the source stage's tag.
build_all_base_skip(args, k) ==
    CASE k = 1 -> args.base
      [] k = 2 -> build_all_tag(args, build_all_source(args))
      [] k = 3 -> build_all_tag(args, build_all_source(args))
      [] k = 4 -> build_all_tag(args, "compile")

\* The base build_all passes to each stage.
build_all_base(args, k) ==
    CASE k = 1 -> args.base
      [] k = 2 -> build_all_tag(args, build_all_source(args))
      [] k = 3 -> build_all_tag(args, "configure")
      [] k = 4 -> build_all_tag(args, "compile")

BuildIdle ==
    /\ b_pc = "idle"
    /\ b_args = NoArgs
    /\ b_stage = 1
    /\ b_log = <<>>
    /\ b_images = <<>>
    /\ b_result = NoResult

\* build_all is called: images = {}.
BuildAllCall ==
    /\ b_pc = "idle"
    /\ \E t \in Tags, b \in BaseTags, p \in CopyPaths \cup {NoPath},
          r \in RepoIds :
          b_args' = [tag |-> t, base |-> b, copy_path |-> p, repo |-> r]
    /\ b_pc' = "building"
    /\ b_stage' = 1
    /\ b_log' = <<>>
    /\ b_images' = <<>>
    /\ b_result' = NoResult
    /\ BuildFrame

\* clone rejects a malformed repository identifier before any build.
BuildCloneRejects ==
    /\ b_pc = "building"
    /\ build_all_stage(b_args, b_stage) = "clone"
    /\ ~github_repo_match(b_args.repo)
    /\ b_pc' = "raised"
    /\ UNCHANGED <<b_args, b_stage, b_log, b_images, b_result>>
    /\ BuildFrame

\* A mutant of build_all: the error of a stage's build is swallowed and
\* build_all goes on to the next stage.
build_all_after_stage_swallow(ok, k) ==
    IF k = 4 THEN [pc |-> "returned", stage |-> k]
    ELSE [pc |-> "building", stage |-> k + 1]

\* Where build_all is after the build of stage k: the DockerBuildError of
\* a failed build leaves build_all; after the last stage it returns.
build_all_after_stage(ok, k) ==
    IF ~ok THEN [pc |-> "raised", stage |-> k]
    ELSE IF k = 4 THEN [pc |-> "returned", stage |-> k]
    ELSE [pc |-> "building", stage |-> k + 1]

\* One stage of build_all: the stage command resolves its tag and hands the
\* build to the backend (Image.build), which returns the image or raises
\* DockerBuildError; the image is stored under the tag build_all passed.
BuildStage ==
    /\ b_pc = "building"
    /\ build_all_stage(b_args, b_stage) = "clone"
          => github_repo_match(b_args.repo)
    /\ LET stage == build_all_stage(b_args, b_stage)
           tag == build_all_tag(b_args, stage)
       IN \E ok \in BOOLEAN :
             LET after == build_all_after_stage(ok, b_stage)
                 images == IF ok THEN Append(b_images, tag) ELSE b_images
             IN /\ b_log' = Append(b_log,
                      [stage |-> stage, tag |-> resolve(tag),
                       base |-> build_all_base(b_args, b_stage), ok |-> ok])
                /\ b_images' = images
                /\ b_pc' = after.pc
                /\ b_stage' = after.stage
                /\ b_result' = IF after.pc = "returned" THEN images ELSE b_result
    /\ UNCHANGED b_args
    /\ BuildFrame

BuildNext == BuildAllCall \/ BuildCloneRejects \/ BuildStage

(***************************************************************************)
(* Dockerfile builders: git_clone_dockerfile, github_checkout_dockerfile   *)
(***************************************************************************)
NoDockerfile == [kind |-> "none", error |-> "none", header |-> <<>>, body |-> <<>>]

\* The text micromamba_docker_lines() contributes to a body.
micromamba_docker_lines == <<"micromamba_docker_lines()">>

\* git_clone_command: the clone instruction, in the comment line of the body.
git_clone_command(git_repo, repo_branch, git_url, target_location) ==
    <<"git", "clone">>
    \o (IF repo_branch # <<>> THEN <<<<"--branch=", repo_branch>>>> ELSE <<>>)
    \o << <<git_url, git_repo, ".git">>, target_location >>

\* git_clone_dockerfile(git_repo, repo_branch) with the default git_url and
\* folder_name: the header and the body, whatever git_repo is.
git_clone_dockerfile(git_repo, repo_branch) ==
    LET git_url == "https://github.com"
        folder_name == "repo"
        instruction == git_clone_command(git_repo, repo_branch, git_url, folder_name)
                       \o <<"&&", "rm", "-rf", <<"/", folder_name, "/.git*">>>>
    IN [kind |-> "returned",
        error |-> "none",
        header |-> <<"# syntax=docker/dockerfile:1-labs">>,
        body |-> << <<"USER root">>,
                    <<"RUN mkdir /", folder_name>>,
                    <<"RUN chown -R $MAMBA_USER_ID:$MAMBA_USER_GID /", folder_name>>,
                    <<"RUN chmod -R 755 /", folder_name>>,
                    micromamba_docker_lines,
                    <<"ADD ", git_url, "/", git_repo, ".git /", folder_name, "/">>,
                    <<"# RUN ", instruction>>,
                    <<"WORKDIR /", folder_name, "/">>,
                    <<"USER $DEFAULT_USER">> >>]

\* The "repo" group of the match: what follows the slash.
repo_match_group(github_repo) ==
    LET i == CHOOSE k \in DOMAIN github_repo : github_repo[k] = "/"
    IN SubSeq(github_repo, i + 1, RegexEnd(github_repo))

\* github_checkout_dockerfile(github_repo, repo_branch) with the default
\* git_url: the ValueError for a malformed identifier, the body otherwise.
github_checkout_dockerfile(github_repo, repo_branch) ==
    IF ~github_repo_match(github_repo)
    THEN [kind |-> "raised", error |-> "ValueError", header |-> <<>>, body |-> <<>>]
    ELSE LET repo_name == repo_match_group(github_repo)
             instruction == <<"RUN", "git", "clone">>
                            \o (IF repo_branch # <<>>
                                THEN <<"--branch", repo_branch>> ELSE <<>>)
                            \o << <<"https://github.com", "/", github_repo>> >>
         IN [kind |-> "returned",
             error |-> "none",
             header |-> <<>>,
             body |-> << <<"USER root">>,
                         <<"RUN mkdir /", repo_name>>,
                         <<"RUN chmod 777 /", repo_name>>,
                         micromamba_docker_lines,
                         instruction,
                         <<"WORKDIR /", repo_name, "/">>,
                         <<"USER $DEFAULT_USER">> >>]

\* The identifiers the builders are given: every string of at most
\* MaxRepoLen characters over a letter, the hyphen, the slash and the
\* newline.
MaxRepoLen == 4
RepoArgChars == {"u", "-", "/", "\n"}
RepoArgs == SeqsUpTo(RepoArgChars, MaxRepoLen)
BranchArgs == { <<>>, <<"g", "h", "i">> }

DockerGitIdle ==
    /\ gd_pc = "idle"
    /\ gd_fn = ""
    /\ gd_repo = <<>>
    /\ gd_branch = <<>>
    /\ gd_out = NoDockerfile

DockerGitInit ==
    /\ gd_pc = "idle"
    /\ gd_fn = ""
    /\ gd_repo \in RepoArgs
    /\ gd_branch \in BranchArgs
    /\ gd_out = NoDockerfile

GitCloneDockerfile ==
    /\ gd_pc = "idle"
    /\ gd_fn' = "git_clone_dockerfile"
    /\ gd_out' = git_clone_dockerfile(gd_repo, gd_branch)
    /\ gd_pc' = gd_out'.kind
    /\ UNCHANGED <<gd_repo, gd_branch>>
    /\ DockerGitFrame

GithubCheckoutDockerfile ==
    /\ gd_pc = "idle"
    /\ gd_fn' = "github_checkout_dockerfile"
    /\ gd_out' = github_checkout_dockerfile(gd_repo, gd_branch)
    /\ gd_pc' = gd_out'.kind
    /\ UNCHANGED <<gd_repo, gd_branch>>
    /\ DockerGitFrame

DockerGitNext == GitCloneDockerfile \/ GithubCheckoutDockerfile

\* [USER]/[REPO_NAME]: a user and a repository name, neither empty, of
\* letters, digits and hyphens, with one slash between them.
UserRepoShape(repo) ==
    \E i \in DOMAIN repo :
        /\ repo[i] = "/"
        /\ SubSeq(repo, 1, i - 1) \in SeqsUpTo(RepoNameChars, Len(repo)) \ {<<>>}
        /\ SubSeq(repo, i + 1, Len(repo)) \in SeqsUpTo(RepoNameChars, Len(repo)) \ {<<>>}

\* C22: git_clone_dockerfile and github_checkout_dockerfile raise
\* ValueError whenever the identifier is not of the [USER]/[REPO_NAME]
\* shape and return a Dockerfile body only for well-formed identifiers.
C22_MalformedRepoRejected ==
    gd_pc # "idle" =>
        IF UserRepoShape(gd_repo)
        THEN gd_pc = "returned" /\ gd_out.body # <<>>
        ELSE gd_pc = "raised" /\ gd_out.error = "ValueError"

\* What does hold of the two builders: git_clone_dockerfile returns a
\* body for every identifier, and github_checkout_dockerfile departs from
\* the shape only for an identifier that ends in a newline.
DockerGitBehaviour ==
    /\ gd_fn = "git_clone_dockerfile" => gd_pc = "returned" /\ gd_out.body # <<>>
    /\ gd_fn = "github_checkout_dockerfile" /\ RegexEnd(gd_repo) = Len(gd_repo)
          => IF UserRepoShape(gd_repo)
             THEN gd_pc = "returned" /\ gd_out.body # <<>>
             ELSE gd_pc = "raised" /\ gd_out.error = "ValueError"

(***************************************************************************)
(* distrib                                                                 *)
(***************************************************************************)
NoDistribArgs == [tag |-> <<>>, base |-> <<>>, source_tag |-> <<>>, package |-> ""]
NoDistribDockerfile == [source |-> <<>>, base |-> <<>>, ld_lib |-> ""]

\* The images of the host: a base image and a source image under their
\* prefixed tags, and a base image under an unprefixed tag.
HostImages == { <<"w", "g", "-", "b">>, <<"w", "g", "-", "s">>, <<"b">> }

\* The base and source_tag arguments.
DistribBases == { <<"b">>, <<"w", "g", "-", "b">>, <<"n">> }
DistribSources == { <<"s">>, <<"w", "g", "-", "s">>, <<"w", "g", "-", "b">> }
DistribTags == { <<"d">>, <<"w", "g", "-", "d">> }

\* test_image(image, '"$BUILD_PREFIX/lib64"'): whether the path exists on
\* the image.
test_image(lib64, image) == image \in lib64

\* The image distrib probes for lib64: Image(base).
distrib_probed(base, source_tag) == base

\* distrib_dockerfile of wigwam: FROM source_tag as source, FROM base, and
\* the library directory on LD_LIBRARY_PATH.
distrib_dockerfile(base, source_tag, ld_lib) ==
    [source |-> source_tag, base |-> base, ld_lib |-> ld_lib]

DistribIdle ==
    /\ ds_pc = "idle"
    /\ ds_lib64 = {}
    /\ ds_args = NoDistribArgs
    /\ ds_probe = NoTag
    /\ ds_dockerfile = NoDistribDockerfile
    /\ ds_err = "none"

\* Any of the host's images may hold a lib64 directory.
DistribInit ==
    /\ ds_pc = "idle"
    /\ ds_lib64 \in SUBSET HostImages
    /\ ds_args = NoDistribArgs
    /\ ds_probe = NoTag
    /\ ds_dockerfile = NoDistribDockerfile
    /\ ds_err = "none"

\* distrib (wigwam) and distributable (docker_cli) up to the build: the
\* image named base is looked up and probed for lib64, and the Dockerfile
\* is generated. docker_cli passes base= to a distrib_dockerfile that has
\* no such parameter, and leaves with the TypeError.
DistribCall ==
    /\ ds_pc = "idle"
    /\ \E tag \in DistribTags, base \in DistribBases, source_tag \in DistribSources,
          package \in {"docker_cli", "wigwam"} :
          LET probed == distrib_probed(base, source_tag)
              is_64_bit == test_image(ds_lib64, probed)
              lib == IF is_64_bit THEN "lib64" ELSE "lib"
          IN /\ ds_args' = [tag |-> tag, base |-> base, source_tag |-> source_tag,
                            package |-> package]
             /\ IF probed \notin HostImages
                THEN /\ ds_pc' = "raised"
                     /\ ds_err' = "ImageNotFoundError"
                     /\ ds_probe' = NoTag
                     /\ ds_dockerfile' = NoDistribDockerfile
                ELSE IF package = "docker_cli"
                THEN /\ ds_pc' = "raised"
                     /\ ds_err' = "TypeError"
                     /\ ds_probe' = probed
                     /\ ds_dockerfile' = NoDistribDockerfile
                ELSE /\ ds_pc' = "building"
                     /\ ds_err' = "none"
                     /\ ds_probe' = probed
                     /\ ds_dockerfile' = distrib_dockerfile(resolve(base),
                                             resolve(source_tag), lib)
    /\ UNCHANGED ds_lib64
    /\ DistribFrame

\* Image.build of the distributable image returns or raises.
DistribBuildEnds ==
    /\ ds_pc = "building"
    /\ \E ok \in BOOLEAN :
          /\ ds_pc' = IF ok THEN "returned" ELSE "raised"
          /\ ds_err' = IF ok THEN "none" ELSE "DockerBuildError"
    /\ UNCHANGED <<ds_lib64, ds_args, ds_probe, ds_dockerfile>>
    /\ DistribFrame

DistribNext == DistribCall \/ DistribBuildEnds

\* C24: distrib chooses lib64 or lib by probing the source image given by
\* source_tag: the image inspected is the source image, and lib64 is
\* selected exactly when the probe on that image succeeds.
C24_ProbesSourceImage ==
    ds_pc \in {"building", "returned"} =>
        /\ ds_probe \in {ds_args.source_tag, resolve(ds_args.source_tag)}
        /\ ds_dockerfile.ld_lib = "lib64" <=>
              \E image \in {ds_args.source_tag, resolve(ds_args.source_tag)} :
                  image \in ds_lib64

\* What does hold: the image inspected is the one named by base, and lib64
\* is selected exactly when the probe on that image succeeds.
DistribProbesBase ==
    ds_pc \in {"building", "returned"} =>
        /\ ds_probe = ds_args.base
        /\ ds_dockerfile.ld_lib = "lib64" <=> ds_args.base \in ds_lib64

(***************************************************************************)
(* Workflows: get_workflow_object, workflow_mounts, run_workflow,          *)
(* run_series_workflow                                                     *)
(***************************************************************************)
NoScratch == "None"
NoTest == "None"
NoCall == [workflow |-> "", test |-> NoTest, runconfig |-> "",
           runconfig_dir |-> "", scratch |-> NoScratch, inputs |-> <<>>]
NoStderr == "None"
NoOutcome == [exc |-> "none", stderr |-> NoStderr]

\* Workflow names: the recognized ones and two that are not.
WorkflowNames == {"gslc", "gcov", "insar", "rslc", "el_edge", "el_null",
                  "parallel", "series"}

\* The runconfig files that exist on the host, under any runconfig directory
\* and workflow name.
HostRunconfigs == {"rc.yaml"}
Runconfigs == {"rc.yaml", "absent.yaml"}

\* A mutant of get_workflow_object: a name that is not recognized is
\* taken for a generic workflow.
get_workflow_object_lenient(workflow_name) ==
    IF workflow_name \in {"el_edge", "el_null"}
    THEN [class |-> "TextRunconfigWorkflow", module |-> workflow_name]
    ELSE [class |-> "GenericSASWorkflow", module |-> workflow_name]

\* get_workflow_object: the handler of a workflow name, or the ValueError.
get_workflow_object(workflow_name) ==
    IF workflow_name \in {"gslc", "gcov", "insar"}
    THEN [class |-> "GenericSASWorkflow", module |-> workflow_name]
    ELSE IF workflow_name = "rslc"
    THEN [class |-> "GenericSASWorkflow", module |-> "focus"]
    ELSE IF workflow_name = "insar"
    THEN [class |-> "InSARWorkflow", module |-> workflow_name]
    ELSE IF workflow_name \in {"el_edge", "el_null"}
    THEN [class |-> "TextRunconfigWorkflow", module |-> workflow_name]
    ELSE [class |-> "ValueError", module |-> workflow_name]

\* Workflow.get_command of each handler class.
get_command(workflow_obj, runconfig) ==
    CASE workflow_obj.class = "GenericSASWorkflow" ->
            <<"python -m nisar.workflows.", workflow_obj.module, " ", runconfig>>
      [] workflow_obj.class = "InSARWorkflow" ->
            <<"python -m nisar.workflows.", workflow_obj.module, " ", runconfig,
              " -- restart">>
      [] workflow_obj.class = "TextRunconfigWorkflow" ->
            <<"python -m nisar.workflows.", workflow_obj.module, " @", runconfig>>
      [] workflow_obj.class = "SoilMoistureWorkflow" ->
            <<"micromamba run -n SoilMoisture NISAR_SM_SAS ", runconfig>>

\* test_subdir = Path(workflow_name)/test if test is not None
\*               else Path(workflow_name)
test_subdir(call) ==
    IF call.test # NoTest THEN <<call.workflow, call.test>> ELSE <<call.workflow>>

\* A mutant of runconfig_found: the runconfig is not looked for.
runconfig_found_always(call) == TRUE

\* os.path.isfile(runconfig_host_path)
runconfig_found(call) == call.runconfig \in HostRunconfigs

\* A mutant of the exit of workflow_mounts: the temporary directory is
\* removed only when the body ended without an error.
workflow_mounts_exit_on_success(fs, temp_scratch, host_scratch_dir, outcome) ==
    IF temp_scratch /\ outcome = "ok" THEN fs \ {host_scratch_dir} ELSE fs

\* The finally block of workflow_mounts: whatever the outcome of the body,
\* a temporary scratch directory is removed.
workflow_mounts_exit(fs, temp_scratch, host_scratch_dir, outcome) ==
    IF temp_scratch THEN fs \ {host_scratch_dir} ELSE fs

\* shutil.rmtree(path) on the directories the model keeps by name: the
\* directory and everything under it goes.
rmtree(fs, path) == {d \in fs : ~StartsWith(d, path)}

\* A mutant of the finally block: the scratch directory is removed whether
\* or not it is a temporary one.
workflow_mounts_exit_dirs_always(fs, temp_scratch, host_scratch_dir) ==
    rmtree(fs, host_scratch_dir)

\* The finally block of workflow_mounts, as it acts on the named
\* directories of the host: only a temporary scratch directory is removed.
workflow_mounts_exit_dirs(fs, temp_scratch, host_scratch_dir) ==
    IF temp_scratch THEN rmtree(fs, host_scratch_dir) ELSE fs

WorkflowIdle ==
    /\ wf_mode = "idle"
    /\ wf_pc = "idle"
    /\ wf_call = NoCall
    /\ wf_temp = 0
    /\ wf_err = "none"
    /\ wf_msg = <<>>
    /\ wf_outcome = NoOutcome
    /\ fs_temp = {}
    /\ temp_made = 0
    /\ fs_dirs = {}
    /\ run_log = <<>>
    /\ ser_pc = "idle"
    /\ ser_info = <<>>
    /\ ser_idx = 1

\* The list of bind mounts workflow_mounts yields: the output directory,
\* the runconfig file, one mount per input repository and the scratch
\* directory.
RECURSIVE input_mounts(_)
input_mounts(input_dict) ==
    IF input_dict = <<>>
    THEN <<>>
    ELSE <<BindMountAt(HostPath(<<"inputs", Head(input_dict)>>),
                       ImagePath(<<"install", "input", Head(input_dict)>>),
                       "ro")>>
         \o input_mounts(Tail(input_dict))

\* A mutant of workflow_mounts_list: the inputs are mounted read-write.
workflow_mounts_inputs_rw(call, host_scratch_dir) ==
    <<BindMountAt(HostPath(<<"output">>), ImagePath(<<"install", "output">>), "rw"),
      BindMountAt(HostPath(<<call.runconfig_dir, call.workflow, call.runconfig>>),
                  ImagePath(<<"install", call.runconfig>>), "ro")>>
    \o [i \in DOMAIN call.inputs |->
          BindMountAt(HostPath(<<"inputs", call.inputs[i]>>),
                      ImagePath(<<"install", "input", call.inputs[i]>>), "rw")]
    \o <<BindMountAt(HostPath(host_scratch_dir),
                     ImagePath(<<"install", "scratch", call.workflow>>), "rw")>>

workflow_mounts_list(call, host_scratch_dir) ==
    <<BindMountAt(HostPath(<<"output">>), ImagePath(<<"install", "output">>), "rw"),
      BindMountAt(HostPath(<<call.runconfig_dir, call.workflow, call.runconfig>>),
                  ImagePath(<<"install", call.runconfig>>), "ro")>>
    \o input_mounts(call.inputs)
    \o <<BindMountAt(HostPath(host_scratch_dir),
                     ImagePath(<<"install", "scratch", call.workflow>>), "rw")>>

\* run_workflow up to the backend run: the command is resolved, then
\* workflow_mounts makes the output directory, checks the runconfig, makes
\* the scratch directory and yields the mounts, and the run is invoked.
RunWorkflowEnter(call) ==
    LET workflow_obj == get_workflow_object(call.workflow)
        out_dir == <<"output">> \o test_subdir(call)
        host_scratch_dir == IF call.scratch = NoScratch
                            THEN <<"tmp", temp_made + 1>>
                            ELSE <<call.scratch>>
        bind_mounts == workflow_mounts_list(call, host_scratch_dir)
        scratch_subdir == <<call.scratch>> \o test_subdir(call)
    IN /\ wf_call' = call
       /\ wf_outcome' = NoOutcome
       /\ IF workflow_obj.class = "ValueError"
          THEN /\ wf_pc' = "raised"
               /\ wf_err' = "ValueError"
               /\ wf_msg' = <<"Workflow not recognized", call.workflow>>
               /\ wf_temp' = 0
               /\ UNCHANGED <<fs_temp, temp_made, fs_dirs, run_log>>
          ELSE IF ~runconfig_found(call)
          THEN /\ wf_pc' = "raised"
               /\ wf_err' = "ValueError"
               /\ wf_msg' = <<"Runconfig not found", call.runconfig>>
               /\ wf_temp' = 0
               /\ fs_dirs' = fs_dirs \cup {out_dir}
               /\ UNCHANGED <<fs_temp, temp_made, run_log>>
          ELSE /\ wf_pc' = "running"
               /\ wf_err' = "none"
               /\ wf_msg' = <<>>
               /\ IF call.scratch = NoScratch
                  THEN /\ temp_made' = temp_made + 1
                       /\ wf_temp' = temp_made + 1
                       /\ fs_temp' = fs_temp \cup {temp_made + 1}
                       /\ fs_dirs' = fs_dirs \cup {out_dir}
                  ELSE /\ wf_temp' = 0
                       /\ fs_dirs' = fs_dirs \cup {out_dir, scratch_subdir}
                       /\ UNCHANGED <<fs_temp, temp_made>>
               /\ run_log' = Append(run_log,
                     [workflow |-> call.workflow,
                      runconfig |-> call.runconfig,
                      command |-> get_command(workflow_obj, call.runconfig),
                      bind_mounts |-> bind_mounts,
                      mounts |-> mount_strings(bind_mounts),
                      made |-> IF call.scratch = NoScratch
                               THEN {out_dir}
                               ELSE {out_dir, scratch_subdir}])

\* input_dict of the test parameters: the repositories of the test.
InputDicts == { <<>>, <<"A">>, <<"A", "B">> }

Scratches == {NoScratch, "scratch"}

\* The workflow command runs a single test.
RunWorkflowCall ==
    /\ CommandIdle
    /\ wf_mode' = "single"
    /\ \E w \in WorkflowNames, rc \in Runconfigs, s \in Scratches,
          inputs \in InputDicts :
          RunWorkflowEnter([workflow |-> w, test |-> "t1", runconfig |-> rc,
                            runconfig_dir |-> "runconfigs", scratch |-> s,
                            inputs |-> inputs])
    /\ UNCHANGED <<ser_pc, ser_info, ser_idx>>
    /\ WorkflowFrame

\* Image.run outcomes: the run succeeds; docker exits with a code other
\* than 127 and the CalledProcessError carries the stderr text when stderr
\* was captured and None when it was not; docker exits with 127 and
\* CommandNotFoundError is raised.
RunOutcomes ==
    { [exc |-> "ok", stderr |-> NoStderr],
      [exc |-> "CalledProcessError", stderr |-> "diagnostic"],
      [exc |-> "CalledProcessError", stderr |-> NoStderr],
      [exc |-> "CommandNotFoundError", stderr |-> NoStderr] }

\* The try block of run_workflow around the backend run: what leaves
\* run_workflow for each outcome of the run. A CalledProcessError becomes
\* TestFailedError("Workflow test failed with stderr:\n" + err.stderr);
\* with err.stderr None the concatenation is a TypeError.
run_workflow_raises(outcome) ==
    IF outcome.exc = "ok"
    THEN [err |-> "none", msg |-> <<>>]
    ELSE IF outcome.exc = "CalledProcessError"
    THEN IF outcome.stderr = NoStderr
         THEN [err |-> "TypeError", msg |-> <<"can only concatenate str">>]
         ELSE [err |-> "TestFailedError",
               msg |-> <<"Workflow test failed with stderr:", outcome.stderr>>]
    ELSE [err |-> outcome.exc, msg |-> <<>>]

\* A mutant of the loop of run_series_workflow: an error of a child is
\* swallowed and the loop stays where it is.
series_after_child_swallow(pc, failed) == pc

\* The loop of run_series_workflow after a child's run_workflow call: an
\* error the call raised leaves the loop and run_series_workflow.
series_after_child(pc, failed) == IF failed THEN "raised" ELSE pc

\* The backend run ends; run_workflow turns a CalledProcessError into
\* TestFailedError, the mounts' scope is left and run_workflow returns or
\* raises. In a series the loop goes on to the next child or the error
\* leaves run_series_workflow.
BackendRunEnds ==
    /\ wf_pc = "running"
    /\ \E outcome \in RunOutcomes :
          /\ fs_temp' = workflow_mounts_exit(fs_temp, wf_call.scratch = NoScratch,
                                            wf_temp, outcome.exc)
          /\ fs_dirs' = workflow_mounts_exit_dirs(fs_dirs, wf_call.scratch = NoScratch,
                             IF wf_call.scratch = NoScratch
                             THEN <<"tmp", wf_temp>> ELSE <<wf_call.scratch>>)
          /\ wf_outcome' = outcome
          /\ wf_pc' = IF outcome.exc = "ok" THEN "returned" ELSE "raised"
          /\ wf_err' = run_workflow_raises(outcome).err
          /\ wf_msg' = run_workflow_raises(outcome).msg
          /\ ser_pc' = IF wf_mode = "series"
                       THEN series_after_child(ser_pc, outcome.exc # "ok")
                       ELSE ser_pc
          /\ ser_idx' = IF wf_mode = "series" /\ outcome.exc = "ok"
                        THEN ser_idx + 1 ELSE ser_idx
    /\ UNCHANGED <<wf_mode, wf_call, wf_temp, temp_made, run_log, ser_info>>
    /\ WorkflowFrame

\* The children of a series: leaves that run, a leaf whose runconfig is
\* absent, a "parallel" child, and a child that is itself a series.
Leaf(w, rc) == [workflow |-> w, runconfig |-> rc, series |-> <<>>]
SeriesChildren ==
    { Leaf("gslc", "rc.yaml"), Leaf("insar", "rc.yaml"),
      Leaf("rslc", "absent.yaml"), Leaf("parallel", "rc.yaml"),
      [workflow |-> "series", runconfig |-> "rc.yaml",
       series |-> <<Leaf("el_edge", "rc.yaml"), Leaf("gcov", "rc.yaml")>>] }

MaxSeries == 3

\* The workflow command runs a multi test: run_series_workflow is called.
RunSeriesCall ==
    /\ CommandIdle
    /\ wf_mode' = "series"
    /\ \E n \in 0..MaxSeries : \E series \in [1..n -> SeriesChildren] :
          ser_info' = series
    /\ \E s \in Scratches, inputs \in InputDicts :
          wf_call' = [NoCall EXCEPT !.scratch = s, !.inputs = inputs]
    /\ ser_pc' = "loop"
    /\ ser_idx' = 1
    /\ UNCHANGED <<wf_pc, wf_temp, wf_err, wf_msg, wf_outcome, fs_temp, temp_made,
                   fs_dirs, run_log>>
    /\ WorkflowFrame

\* One pass of the loop of run_series_workflow up to the backend run of the
\* child: run_workflow is called with the child's workflow and runconfig.
RunSeriesChild ==
    /\ ser_pc = "loop"
    /\ wf_pc \in {"idle", "returned"}
    /\ ser_idx <= Len(ser_info)
    /\ LET test_info == ser_info[ser_idx]
       IN RunWorkflowEnter([workflow |-> test_info.workflow, test |-> NoTest,
                            runconfig |-> test_info.runconfig,
                            runconfig_dir |-> "runconfigs/main",
                            scratch |-> wf_call.scratch,
                            inputs |-> wf_call.inputs])
    /\ ser_pc' = series_after_child(ser_pc, wf_pc' = "raised")
    /\ UNCHANGED <<wf_mode, ser_info, ser_idx>>
    /\ WorkflowFrame

\* The loop of run_series_workflow is over: it returns.
RunSeriesReturn ==
    /\ ser_pc = "loop"
    /\ wf_pc \in {"idle", "returned"}
    /\ ser_idx > Len(ser_info)
    /\ ser_pc' = "done"
    /\ UNCHANGED <<wf_mode, wf_pc, wf_call, wf_temp, wf_err, wf_msg, wf_outcome, fs_temp, temp_made,
                   fs_dirs, run_log, ser_info, ser_idx>>
    /\ WorkflowFrame

WorkflowNext ==
    \/ RunWorkflowCall
    \/ BackendRunEnds
    \/ RunSeriesCall
    \/ RunSeriesChild
    \/ RunSeriesReturn

(***************************************************************************)
(* Input resolution: input_dict_parse, check_input_kvp,                    *)
(* generate_search_tables, search_for_inputs                               *)
(***************************************************************************)
\* A Python dict is the sequence of its <<key, value>> pairs in insertion
\* order, no key twice.
DictKeys(d) == [i \in DOMAIN d |-> d[i][1]]
DictValues(d) == [i \in DOMAIN d |-> d[i][2]]
DictHas(d, k) == \E i \in DOMAIN d : d[i][1] = k
DictGet(d, k) == d[CHOOSE i \in DOMAIN d : d[i][1] = k][2]
\* d[k] = v
DictSet(d, k, v) ==
    IF DictHas(d, k)
    THEN [i \in DOMAIN d |-> IF d[i][1] = k THEN <<k, v>> ELSE d[i]]
    ELSE Append(d, <<k, v>>)

\* list.remove(x): the list without the first x.
RECURSIVE ListRemove(_, _)
ListRemove(l, x) ==
    IF l = <<>> THEN <<>>
    ELSE IF Head(l) = x THEN Tail(l)
    ELSE <<Head(l)>> \o ListRemove(Tail(l), x)

\* str.strip()
RECURSIVE LStrip(_)
LStrip(str) ==
    IF str # <<>> /\ Head(str) = " " THEN LStrip(Tail(str)) ELSE str
RECURSIVE RStrip(_)
RStrip(str) ==
    IF str # <<>> /\ str[Len(str)] = " "
    THEN RStrip(SubSeq(str, 1, Len(str) - 1))
    ELSE str
Strip(str) == RStrip(LStrip(str))

\* str.split(":")
RECURSIVE Split(_)
Split(str) ==
    IF \A i \in DOMAIN str : str[i] # ":"
    THEN <<str>>
    ELSE LET i == CHOOSE j \in DOMAIN str :
                     str[j] = ":" /\ \A k \in 1..(j - 1) : str[k] # ":"
         IN <<SubSeq(str, 1, i - 1)>> \o Split(SubSeq(str, i + 1, Len(str)))

\* check_input_kvp: the key and the value of an argument, or the ValueError.
check_input_kvp(kvp_str) ==
    LET string_kvp == Strip(kvp_str)
        kvp == Split(string_kvp)
    IN IF Len(string_kvp) = 0 THEN [error |-> TRUE, key |-> <<>>, value |-> <<>>]
       ELSE IF Len(kvp) > 2 THEN [error |-> TRUE, key |-> <<>>, value |-> <<>>]
       ELSE IF Len(kvp) = 2 THEN [error |-> FALSE, key |-> kvp[1], value |-> kvp[2]]
       ELSE [error |-> FALSE, key |-> kvp[1], value |-> kvp[1]]

ParseError == [kind |-> "error", path |-> <<>>, dict |-> <<>>]

\* A mutant of the loop of input_dict_parse that raises the ValueError it
\* builds for an unlabeled path among several arguments.
RECURSIVE input_dict_parse_raising(_, _, _)
input_dict_parse_raising(kvp_strings, i, ret_dict) ==
    IF i > Len(kvp_strings)
    THEN [kind |-> "dict", path |-> <<>>, dict |-> ret_dict]
    ELSE LET kv == check_input_kvp(kvp_strings[i])
         IN IF kv.error THEN ParseError
            ELSE IF kv.key = kv.value /\ Len(kvp_strings) = 1
            THEN [kind |-> "str", path |-> kv.value, dict |-> <<>>]
            ELSE IF kv.key = kv.value THEN ParseError
            ELSE input_dict_parse_raising(kvp_strings, i + 1,
                                          DictSet(ret_dict, kv.key, kv.value))

\* The loop of input_dict_parse from argument i on: the ValueError for an
\* unlabeled path among several arguments is built and not raised, and the
\* path is stored under itself.
RECURSIVE input_dict_parse_from(_, _, _)
input_dict_parse_from(kvp_strings, i, ret_dict) ==
    IF i > Len(kvp_strings)
    THEN [kind |-> "dict", path |-> <<>>, dict |-> ret_dict]
    ELSE LET kv == check_input_kvp(kvp_strings[i])
         IN IF kv.error THEN ParseError
            ELSE IF kv.key = kv.value /\ Len(kvp_strings) = 1
            THEN [kind |-> "str", path |-> kv.value, dict |-> <<>>]
            ELSE input_dict_parse_from(kvp_strings, i + 1,
                                       DictSet(ret_dict, kv.key, kv.value))

input_dict_parse(kvp_strings) == input_dict_parse_from(kvp_strings, 1, <<>>)

\* The label table of a dict of inputs: each label and each repository name
\* names the repository.
RECURSIVE LabelTable(_, _)
LabelTable(inputs, table) ==
    IF inputs = <<>> THEN table
    ELSE LabelTable(Tail(inputs),
                    DictSet(DictSet(table, Head(inputs)[1], Head(inputs)[2]),
                            Head(inputs)[2], Head(inputs)[2]))

\* The label table of a list of inputs: each repository names itself.
RECURSIVE SelfTable(_, _)
SelfTable(repos, table) ==
    IF repos = <<>> THEN table
    ELSE SelfTable(Tail(repos), DictSet(table, Head(repos), Head(repos)))

\* generate_search_tables: the required repositories and the label table.
generate_search_tables(inputs) ==
    IF inputs.kind = "dict"
    THEN [required |-> DictValues(inputs.items),
          labels |-> LabelTable(inputs.items, <<>>)]
    ELSE [required |-> inputs.items, labels |-> SelfTable(inputs.items, <<>>)]

\* _in_cache: os.path.isdir(os.path.join(cache_dir, repo_name))
in_cache(fs, cache_dir, repo_name) == repo_name \in fs[cache_dir]

SearchResult(kind, map, error, missing, probed) ==
    [kind |-> kind, map |-> map, error |-> error, missing |-> missing,
     probed |-> probed]

\* The repositories of a list that a cache directory holds.
RECURSIVE FoundRepos(_, _, _)
FoundRepos(fs, cache_dir, repos) ==
    IF repos = <<>> THEN <<>>
    ELSE (IF in_cache(fs, cache_dir, Head(repos)) THEN <<Head(repos)>> ELSE <<>>)
         \o FoundRepos(fs, cache_dir, Tail(repos))

\* for repo in found_repos: unmatched_repositories.remove(repo)
RECURSIVE RemoveAll(_, _)
RemoveAll(l, xs) ==
    IF xs = <<>> THEN l ELSE RemoveAll(ListRemove(l, Head(xs)), Tail(xs))

\* for repo in found_repos: inputs_to_paths[repo] = f"{cache_dir}/{repo}"
RECURSIVE BindFound(_, _, _)
BindFound(map, cache_dir, found) ==
    IF found = <<>> THEN map
    ELSE BindFound(DictSet(map, Head(found), <<cache_dir, "/", Head(found)>>),
                   cache_dir, Tail(found))

\* The cache directories probed for a repository: one _in_cache call each.
Probes(cache_dir, repos) == [i \in DOMAIN repos |-> <<cache_dir, repos[i]>>]

\* A mutant of the cache loop that returns what it has bound when
\* repositories are still unmatched.
RECURSIVE search_cache_dirs_lenient(_, _, _, _, _)
search_cache_dirs_lenient(fs, cache_dirs, map, unmatched, probed) ==
    IF cache_dirs = <<>>
    THEN SearchResult("ok", map, "none", <<>>, probed)
    ELSE LET cache_dir == Head(cache_dirs)
             found == FoundRepos(fs, cache_dir, unmatched)
             left == RemoveAll(unmatched, found)
             bound == BindFound(map, cache_dir, found)
             seen == probed \o Probes(cache_dir, unmatched)
         IN IF Len(left) = 0
            THEN SearchResult("ok", bound, "none", <<>>, seen)
            ELSE search_cache_dirs_lenient(fs, Tail(cache_dirs), bound, left, seen)

\* The cache loop of search_for_inputs and its last check: each cache
\* directory in turn binds the unmatched repositories it holds, the loop
\* stops when none is left, and repositories left at the end are an error.
RECURSIVE search_cache_dirs(_, _, _, _, _)
search_cache_dirs(fs, cache_dirs, map, unmatched, probed) ==
    IF cache_dirs = <<>>
    THEN IF Len(unmatched) > 0
         THEN SearchResult("error", <<>>, "NotFound", unmatched, probed)
         ELSE SearchResult("ok", map, "none", <<>>, probed)
    ELSE LET cache_dir == Head(cache_dirs)
             found == FoundRepos(fs, cache_dir, unmatched)
             left == RemoveAll(unmatched, found)
             bound == BindFound(map, cache_dir, found)
             seen == probed \o Probes(cache_dir, unmatched)
         IN IF Len(left) = 0
            THEN SearchResult("ok", bound, "none", <<>>, seen)
            ELSE search_cache_dirs(fs, Tail(cache_dirs), bound, left, seen)

\* The loop of search_for_inputs over the accepted labels: each label binds
\* its repository to the path given, once; then the paths left over are an
\* error and the cache directories are searched.
RECURSIVE search_labels(_, _, _, _, _, _, _, _)
search_labels(fs, cache_dirs, label_repo_dict, input_dirs, labels, map, unmatched, paths) ==
    IF labels = <<>>
    THEN IF Len(paths) > 0
         THEN SearchResult("error", <<>>, "UnmatchedPath", <<>>, <<>>)
         ELSE search_cache_dirs(fs, cache_dirs, map, unmatched, <<>>)
    ELSE LET label == Head(labels)
             repo == DictGet(label_repo_dict, label)
             path == DictGet(input_dirs, label)
         IN IF repo \notin Range(unmatched)
            THEN SearchResult("error", <<>>, "ReferencedTwice", <<>>, <<>>)
            ELSE search_labels(fs, cache_dirs, label_repo_dict, input_dirs,
                               Tail(labels), DictSet(map, repo, path),
                               ListRemove(unmatched, repo),
                               ListRemove(paths, path))

\* A mutant of the unlabeled-path rule: the path goes to the first
\* repository however many are required.
search_unlabeled_first(required_repositories, path) ==
    IF Len(required_repositories) >= 1
    THEN SearchResult("ok", <<<<required_repositories[1], path>>>>, "none",
                      <<>>, <<>>)
    ELSE SearchResult("error", <<>>, "Unlabeled", <<>>, <<>>)

\* search_for_inputs given one unlabeled path: it is the path of the only
\* required repository, or a ValueError.
search_unlabeled(required_repositories, path) ==
    IF Len(required_repositories) = 1
    THEN SearchResult("ok", <<<<required_repositories[1], path>>>>, "none",
                      <<>>, <<>>)
    ELSE SearchResult("error", <<>>, "Unlabeled", <<>>, <<>>)

\* search_for_inputs; input_dirs is what input_dict_parse returned.
search_for_inputs(fs, required_repositories, label_repo_dict, cache_dirs, input_dirs) ==
    IF input_dirs.kind = "str"
    THEN search_unlabeled(required_repositories, input_dirs.path)
    ELSE IF \E i \in DOMAIN input_dirs.dict :
               ~DictHas(label_repo_dict, input_dirs.dict[i][1])
    THEN SearchResult("error", <<>>, "LabelNotExpected", <<>>, <<>>)
    ELSE search_labels(fs, cache_dirs, label_repo_dict, input_dirs.dict,
                       DictKeys(input_dirs.dict), <<>>, required_repositories,
                       DictValues(input_dirs.dict))

\* The arguments of a call: a bare path, a bare path named like repository
\* B, labelled paths, a repository name as label, an unknown label, too
\* many separators, an empty argument, an argument in blanks.
KvpStrings ==
    { <<"p">>, <<"B">>, <<"r", ":", "p">>, <<"s", ":", "q">>,
      <<"A", ":", "q">>, <<"x", ":", "p">>, <<"r", ":", "p", ":", "q">>,
      <<" ">>, <<" ", "s", ":", "p", " ">> }

MaxInputs == 2

\* The "inputs" field of a test: one repository, labelled repositories, a
\* list of repositories, none, and the same repository required twice.
TestInputs ==
    { [kind |-> "str", items |-> <<<<"A">>>>],
      [kind |-> "dict", items |-> << <<<<"r">>, <<"A">>>>, <<<<"s">>, <<"B">>>> >>],
      [kind |-> "dict", items |-> << <<<<"r">>, <<"B">>>> >>],
      [kind |-> "list", items |-> <<<<"A">>, <<"B">>>>],
      [kind |-> "list", items |-> <<>>],
      [kind |-> "list", items |-> <<<<"A">>, <<"A">>>>],
      [kind |-> "dict", items |-> << <<<<"r">>, <<"A">>>>, <<<<"s">>, <<"A">>>> >>] }

CacheDirs == {"c1", "c2"}
CacheLists == { <<>>, <<"c1">>, <<"c1", "c2">> }
CacheContents == { {}, {<<"A">>}, {<<"B">>}, {<<"A">>, <<"B">>} }

NoParse == [kind |-> "none", path |-> <<>>, dict |-> <<>>]
NoTables == [required |-> <<>>, labels |-> <<>>]
NoSearch == SearchResult("none", <<>>, "none", <<>>, <<>>)

InputsIdle ==
    /\ in_pc = "idle"
    /\ in_kvps = <<>>
    /\ in_test = [kind |-> "list", items |-> <<>>]
    /\ in_caches = <<>>
    /\ cache_fs = [d \in CacheDirs |-> {}]
    /\ in_parsed = NoParse
    /\ in_tables = NoTables
    /\ in_result = NoSearch

\* get_input_files_for_test is about to be called on some arguments, test
\* and cache directories.
InputsInit ==
    /\ in_pc = "idle"
    /\ in_kvps \in SeqsUpTo(KvpStrings, MaxInputs)
    /\ in_test \in TestInputs
    /\ in_caches \in CacheLists
    /\ cache_fs \in [CacheDirs -> CacheContents]
    /\ in_parsed = NoParse
    /\ in_tables = NoTables
    /\ in_result = NoSearch

\* labels_to_dirs = input_dict_parse(input_dirs)
ParseInputs ==
    /\ in_pc = "idle"
    /\ in_parsed' = input_dict_parse(in_kvps)
    /\ in_pc' = IF in_parsed'.kind = "error" THEN "raised" ELSE "parsed"
    /\ UNCHANGED <<in_kvps, in_test, in_caches, cache_fs, in_tables, in_result>>
    /\ InputsFrame

\* req_repos, label_repo_dict = generate_search_tables(test_info)
GenerateTables ==
    /\ in_pc = "parsed"
    /\ in_tables' = generate_search_tables(in_test)
    /\ in_pc' = "tables"
    /\ UNCHANGED <<in_kvps, in_test, in_caches, cache_fs, in_parsed, in_result>>
    /\ InputsFrame

\* inputs_to_paths = search_for_inputs(...), returned to the caller
SearchForInputs ==
    /\ in_pc = "tables"
    /\ in_result' = search_for_inputs(cache_fs, in_tables.required,
                                      in_tables.labels, in_caches, in_parsed)
    /\ in_pc' = IF in_result'.kind = "ok" THEN "returned" ELSE "raised"
    /\ UNCHANGED <<in_kvps, in_test, in_caches, cache_fs, in_parsed, in_tables>>
    /\ InputsFrame

InputsNext == ParseInputs \/ GenerateTables \/ SearchForInputs

(***************************************************************************)
(* Catalog search: search_file, _accept_item                               *)
(***************************************************************************)
\* re.match(fnmatch.translate(name), item_name): the whole name matches the
\* glob, * standing for any characters and ? for one.
RECURSIVE GlobMatch(_, _)
GlobMatch(glob, name) ==
    IF glob = <<>> THEN name = <<>>
    ELSE IF Head(glob) = "*"
    THEN \/ GlobMatch(Tail(glob), name)
         \/ name # <<>> /\ GlobMatch(glob, Tail(name))
    ELSE IF Head(glob) = "?"
    THEN name # <<>> /\ GlobMatch(Tail(glob), Tail(name))
    ELSE name # <<>> /\ Head(name) = Head(glob)
         /\ GlobMatch(Tail(glob), Tail(name))

\* all(tag in item_tags for tag in tag_list) for some tag_list of tags
accept_by_tags(item_dict, tags) ==
    \E i \in DOMAIN tags : tags[i] \subseteq item_dict.tags

\* _accept_item of docker_cli: the loop over names returns at the first
\* name, whether it matches or not.
accept_item_docker_cli(item_dict, tags, names) ==
    IF names # <<>>
    THEN GlobMatch(names[1], item_dict.name)
    ELSE accept_by_tags(item_dict, tags)

\* _accept_item of wigwam: a name that does not match leaves the loop going.
accept_item_wigwam(item_dict, tags, names) ==
    \/ \E i \in DOMAIN names : GlobMatch(names[i], item_dict.name)
    \/ accept_by_tags(item_dict, tags)

\* list(filter(f, data))
RECURSIVE Filter(_, _, _, _)
Filter(impl, data, tags, names) ==
    IF data = <<>> THEN <<>>
    ELSE (IF (IF impl = "docker_cli"
              THEN accept_item_docker_cli(Head(data), tags, names)
              ELSE accept_item_wigwam(Head(data), tags, names))
          THEN <<Head(data)>> ELSE <<>>)
         \o Filter(impl, Tail(data), tags, names)

\* The catalog file: json_dict["data"].
Catalog ==
    << [name |-> <<"x">>, tags |-> {"a", "b"}, url |-> "u1", files |-> "f1"],
       [name |-> <<"y">>, tags |-> {"a"}, url |-> "u2", files |-> "f2"],
       [name |-> <<"x", "y">>, tags |-> {"c"}, url |-> "u3", files |-> "f3"] >>

\* search_file of docker_cli, which has no all flag.
search_file_docker_cli(tags, names) == Filter("docker_cli", Catalog, tags, names)

\* search_file of wigwam.
search_file_wigwam(tags, names, all) ==
    IF all THEN Catalog ELSE Filter("wigwam", Catalog, tags, names)

Globs == { <<"x">>, <<"y">>, <<"x", "*">>, <<"?">> }
SearchTagSets == { {"a", "b"}, {"a", "c"}, {"c"}, {} }
MaxNames == 2
MaxTagSets == 2

SearchIdle ==
    /\ se_pc = "idle"
    /\ se_cmd = "none"
    /\ se_fields = {}
    /\ se_err = "none"
    /\ se_names = <<>>
    /\ se_tags = <<>>
    /\ se_all = FALSE
    /\ se_impl = "none"
    /\ se_items = <<>>

\* A search is about to be made for some names and tag sets.
SearchInit ==
    /\ se_pc = "idle"
    /\ se_cmd = "none"
    /\ se_fields = {}
    /\ se_err = "none"
    /\ se_names \in SeqsUpTo(Globs, MaxNames)
    /\ se_tags \in SeqsUpTo(SearchTagSets, MaxTagSets)
    /\ se_all = FALSE
    /\ se_impl = "none"
    /\ se_items = <<>>

\* docker_cli's search_file is called.
SearchFileDockerCli ==
    /\ se_pc = "idle"
    /\ se_items' = search_file_docker_cli(se_tags, se_names)
    /\ se_impl' = "docker_cli"
    /\ se_pc' = "returned"
    /\ se_cmd' = "search_file"
    /\ UNCHANGED <<se_names, se_tags, se_all, se_fields, se_err>>
    /\ SearchFrame

\* wigwam's search_file is called, with or without the all flag.
SearchFileWigwam ==
    /\ se_pc = "idle"
    /\ \E all \in BOOLEAN :
          /\ se_all' = all
          /\ se_items' = search_file_wigwam(se_tags, se_names, all)
    /\ se_impl' = "wigwam"
    /\ se_pc' = "returned"
    /\ se_cmd' = "search_file"
    /\ UNCHANGED <<se_names, se_tags, se_fields, se_err>>
    /\ SearchFrame

\* new_item of filtered_file_search: the item's fields that are in fields.
filter_fields(item, fields) ==
    [key \in (DOMAIN item) \cap fields |-> item[key]]

\* filtered_file_search of wigwam
filtered_file_search(fields, tags, names, all) ==
    LET items == search_file_wigwam(tags, names, all)
    IN [i \in DOMAIN items |-> filter_fields(items[i], fields)]

\* names_only_search of wigwam
names_only_search(tags, names, all) ==
    LET items == search_file_wigwam(tags, names, all)
    IN [i \in DOMAIN items |-> items[i].name]

\* A mutant of the guard of data_search: only names are looked at.
all_with_filters_names_only(tags, names, all) ==
    all /\ names # <<>>

\* The guard of data_search and data_names:
\* all and (any(True for _ in names) or any(True for _ in tags))
all_with_filters(tags, names, all) ==
    all /\ (names # <<>> \/ tags # <<>>)

\* The fields arguments: [] and two selections.
FieldSets == { {}, {"name"}, {"name", "tags"} }

\* The package whose _search module serves the call. data_commands passes
\* all=all to the search functions: those of wigwam take it, those of
\* docker_cli have no such parameter and the call is a TypeError.
SearchPackages == {"docker_cli", "wigwam"}

\* data_search: with all and a filter it prints its message and calls
\* exit(); otherwise it returns the items found, whole when fields is []
\* and reduced to fields otherwise.
data_search(tags, names, fields, all, impl) ==
    IF all_with_filters(tags, names, all)
    THEN [pc |-> "exited", err |-> "SystemExit", items |-> <<>>]
    ELSE IF impl = "docker_cli"
    THEN [pc |-> "raised", err |-> "TypeError", items |-> <<>>]
    ELSE [pc |-> "returned", err |-> "none",
          items |-> IF fields = {}
                    THEN search_file_wigwam(tags, names, all)
                    ELSE filtered_file_search(fields, tags, names, all)]

\* data_search is called.
DataSearch ==
    /\ se_pc = "idle"
    /\ se_cmd' = "data_search"
    /\ \E all \in BOOLEAN, fields \in FieldSets, impl \in SearchPackages :
          LET result == data_search(se_tags, se_names, fields, all, impl)
          IN /\ se_all' = all
             /\ se_fields' = fields
             /\ se_impl' = impl
             /\ se_pc' = result.pc
             /\ se_err' = result.err
             /\ se_items' = result.items
    /\ UNCHANGED <<se_names, se_tags>>
    /\ SearchFrame

\* data_names is called: the same guard, then the names of the items found.
DataNames ==
    /\ se_pc = "idle"
    /\ se_cmd' = "data_names"
    /\ \E all \in BOOLEAN, impl \in SearchPackages :
          /\ se_all' = all
          /\ se_impl' = impl
          /\ IF all_with_filters(se_tags, se_names, all)
             THEN /\ se_pc' = "exited"
                  /\ se_err' = "SystemExit"
                  /\ se_items' = <<>>
             ELSE IF impl = "docker_cli"
             THEN /\ se_pc' = "raised"
                  /\ se_err' = "TypeError"
                  /\ se_items' = <<>>
             ELSE /\ se_pc' = "returned"
                  /\ se_err' = "none"
                  /\ se_items' = names_only_search(se_tags, se_names, all)
    /\ UNCHANGED <<se_names, se_tags, se_fields>>
    /\ SearchFrame

SearchNext ==
    \/ SearchFileDockerCli
    \/ SearchFileWigwam
    \/ DataSearch
    \/ DataNames

(***************************************************************************)
(* data_fetch: one worker thread per data item                             *)
(***************************************************************************)
NoRequest == [names |-> <<>>, tests |-> <<>>, test_data |-> <<>>]

FetchIdle ==
    /\ df_pc = "idle"
    /\ df_items = <<>>
    /\ df_mount = NoMount
    /\ df_no_cache = FALSE
    /\ df_tasks = <<>>
    /\ df_idx = 1
    /\ df_runs = <<>>
    /\ df_req = NoRequest

\* The names and tags data_fetch is asked for.
FetchNames == SeqsUpTo({ <<"x">>, <<"?">>, <<"x", "*">> }, 1)
FetchTags == { <<>>, <<{"a"}>> }

\* What may end data_fetch before the search: the rover image is not found,
\* or the run that asks the image for its mount location fails.
FetchPreludes == {"ok", "ImageNotFoundError", "CalledProcessError"}

\* The fields data_fetch asks data_search for.
FetchFields == {"name", "url", "files"}

\* data_fetch up to the end of the loop that constructs the tasks: the
\* mount location is asked of the rover image, the cache directory is made,
\* the bind mount is built, the data items are searched for and one thread
\* is constructed for each.
DataFetchCall ==
    /\ CommandIdle
    /\ \E prelude \in FetchPreludes, names \in FetchNames, tags \in FetchTags,
          all \in BOOLEAN, impl \in SearchPackages, no_cache \in BOOLEAN :
          LET mount_point == BindMount(HostPath(<<"cache">>),
                                       ImagePath(<<"$MOUNT_LOCATION">>), "rw")
              data_values == data_search(tags, names, FetchFields, all, impl)
          IN IF prelude # "ok"
             THEN /\ df_pc' = "raised"
                  /\ UNCHANGED <<df_items, df_mount, df_no_cache, df_tasks>>
             ELSE IF data_values.pc # "returned"
             THEN /\ df_pc' = data_values.pc
                  /\ df_mount' = mount_point
                  /\ df_no_cache' = no_cache
                  /\ UNCHANGED <<df_items, df_tasks>>
             ELSE /\ df_pc' = "starting"
                  /\ df_mount' = mount_point
                  /\ df_no_cache' = no_cache
                  /\ df_items' = data_values.items
                  /\ df_tasks' = [i \in DOMAIN data_values.items |-> "created"]
    /\ UNCHANGED <<df_idx, df_runs, df_req>>
    /\ FetchFrame

\* The workflow test file: json.load of test_file. Each workflow has a type
\* and its tests; the "inputs" of a test is one repository name, a dict of
\* labelled repository names, or a list of repository names.
TestFile ==
    { [workflow |-> <<"g">>, test |-> <<"1">>,
       inputs |-> [kind |-> "str", items |-> << <<"y">> >>]],
      [workflow |-> <<"c">>, test |-> <<"2">>,
       inputs |-> [kind |-> "dict",
                   items |-> << << <<"r">>, <<"x">> >>, << <<"s">>, <<"x", "y">> >> >>]],
      [workflow |-> <<"c">>, test |-> <<"3">>,
       inputs |-> [kind |-> "list", items |-> << <<"x">>, <<"y">> >>]] }

\* get_test_info: the entry of the test, or the ValueError when the
\* workflow or the test is not in the file.
get_test_info(workflow_name, test_name) ==
    IF \E t \in TestFile : t.workflow = workflow_name /\ t.test = test_name
    THEN [error |-> "none",
          info |-> CHOOSE t \in TestFile :
                      t.workflow = workflow_name /\ t.test = test_name]
    ELSE [error |-> "ValueError", info |-> <<>>]

\* The loop of data_fetch over tests: test_data grows by the inputs of each
\* test, a str appended and the values of a dict added; inputs of another
\* type add nothing. A test not in WORKFLOW:TEST format, or not in the
\* file, ends the loop with a ValueError.
RECURSIVE test_inputs_loop(_, _)
test_inputs_loop(tests, test_data) ==
    IF tests = <<>>
    THEN [error |-> "none", test_data |-> test_data]
    ELSE LET test_terms == Split(Head(tests))
         IN IF Len(test_terms) # 2
            THEN [error |-> "ValueError", test_data |-> test_data]
            ELSE LET found == get_test_info(test_terms[1], test_terms[2])
                 IN IF found.error # "none"
                    THEN [error |-> "ValueError", test_data |-> test_data]
                    ELSE LET test_inputs == found.info.inputs
                         IN test_inputs_loop(Tail(tests),
                               test_data \o
                               (IF test_inputs.kind = "str"
                                THEN test_inputs.items
                                ELSE IF test_inputs.kind = "dict"
                                THEN DictValues(test_inputs.items)
                                ELSE <<>>))

\* The names data_fetch hands to data_search: the names argument. all_names,
\* the names together with test_data, is computed and not used.
fetch_search_names(names, all_names) == names

\* The tests arguments: WORKFLOW:TEST strings, one without a colon, one of
\* a test that is not in the file.
TestArgs ==
    { <<"g", ":", "1">>, <<"c", ":", "2">>, <<"c", ":", "3">>, <<"g">>,
      <<"g", ":", "2">> }
MaxTests == 2

\* data_fetch of wigwam up to the end of the loop that constructs the
\* tasks. A rover image that is not found is pulled; the inputs of the
\* requested tests are collected; the search is made and one thread is
\* constructed for each item found.
DataFetchTests ==
    /\ CommandIdle
    /\ \E prelude \in FetchPreludes, names \in FetchNames, tags \in FetchTags,
          tests \in SeqsUpTo(TestArgs, MaxTests), all \in BOOLEAN,
          no_cache \in BOOLEAN :
          LET mount_point == BindMount(HostPath(<<"cache">>),
                                       ImagePath(<<"$MOUNT_LOCATION">>), "rw")
              collected == test_inputs_loop(tests, <<>>)
              all_names == names \o collected.test_data
              data_values == data_search(tags, fetch_search_names(names, all_names),
                                         FetchFields, all, "wigwam")
          IN /\ df_req' = [names |-> names, tests |-> tests,
                           test_data |-> collected.test_data]
             /\ df_no_cache' = no_cache
             /\ IF prelude = "CalledProcessError"
                THEN /\ df_pc' = "raised"
                     /\ UNCHANGED <<df_items, df_mount, df_tasks>>
                ELSE IF collected.error # "none"
                THEN /\ df_pc' = "raised"
                     /\ df_mount' = mount_point
                     /\ UNCHANGED <<df_items, df_tasks>>
                ELSE IF data_values.pc # "returned"
                THEN /\ df_pc' = data_values.pc
                     /\ df_mount' = mount_point
                     /\ UNCHANGED <<df_items, df_tasks>>
                ELSE /\ df_pc' = "starting"
                     /\ df_mount' = mount_point
                     /\ df_items' = data_values.items
                     /\ df_tasks' = [i \in DOMAIN data_values.items |-> "created"]
    /\ UNCHANGED <<df_idx, df_runs>>
    /\ FetchFrame

\* One pass of "for task in tasks: task.start()".
FetchStart ==
    /\ df_pc = "starting"
    /\ df_idx <= Len(df_tasks)
    /\ df_tasks' = [df_tasks EXCEPT ![df_idx] = "running"]
    /\ df_idx' = df_idx + 1
    /\ UNCHANGED <<df_pc, df_items, df_mount, df_no_cache, df_runs, df_req>>
    /\ FetchFrame

\* The start loop is over: the join loop begins.
FetchStarted ==
    /\ df_pc = "starting"
    /\ df_idx > Len(df_tasks)
    /\ df_pc' = "joining"
    /\ df_idx' = 1
    /\ UNCHANGED <<df_items, df_mount, df_no_cache, df_tasks, df_runs, df_req>>
    /\ FetchFrame

\* How the fetch run of a worker ends: Image.run returns, or raises
\* CalledProcessError or CommandNotFoundError.
FetchRunOutcomes == {"ok", "CalledProcessError", "CommandNotFoundError"}

\* A mutant of the end of a worker thread: an exception raised in the
\* thread is raised in data_fetch.
thread_ends_raising(pc, outcome) == IF outcome = "ok" THEN pc ELSE "raised"

\* The end of a worker thread as data_fetch sees it: an exception raised by
\* the target ends the thread and goes no further.
thread_ends(pc, outcome) == pc

\* _request_data_item in the thread of task k: the fetch command is run on
\* the rover image with the cache mounted, and the thread ends, whether the
\* run succeeded or raised.
RequestDataItem ==
    /\ \E k \in DOMAIN df_tasks, outcome \in FetchRunOutcomes :
          /\ df_tasks[k] = "running"
          /\ df_tasks' = [df_tasks EXCEPT ![k] = "done"]
          /\ df_runs' = Append(df_runs,
                [repo |-> df_items[k].name, url |-> df_items[k].url,
                 files |-> df_items[k].files, no_cache |-> df_no_cache,
                 mounts |-> mount_strings(<<df_mount>>),
                 outcome |-> outcome])
          /\ df_pc' = thread_ends(df_pc, outcome)
    /\ UNCHANGED <<df_items, df_mount, df_no_cache, df_idx, df_req>>
    /\ FetchFrame

\* A mutant of task.join(): it returns without waiting for the thread.
join_returns_at_once(tasks, i) == TRUE

\* task.join() returns once the thread of task i has ended.
join_returns(tasks, i) == tasks[i] = "done"

\* One pass of "for task in tasks: task.join()".
FetchJoin ==
    /\ df_pc = "joining"
    /\ df_idx <= Len(df_tasks)
    /\ join_returns(df_tasks, df_idx)
    /\ df_idx' = df_idx + 1
    /\ UNCHANGED <<df_pc, df_items, df_mount, df_no_cache, df_tasks, df_runs, df_req>>
    /\ FetchFrame

\* The join loop is over: data_fetch returns.
FetchReturn ==
    /\ df_pc = "joining"
    /\ df_idx > Len(df_tasks)
    /\ df_pc' = "returned"
    /\ UNCHANGED <<df_items, df_mount, df_no_cache, df_tasks, df_idx, df_runs, df_req>>
    /\ FetchFrame

FetchNext ==
    \/ DataFetchCall
    \/ DataFetchTests
    \/ FetchStart
    \/ FetchStarted
    \/ RequestDataItem
    \/ FetchJoin
    \/ FetchReturn

(***************************************************************************)
(* Claims about data_fetch                                                 *)
(***************************************************************************)
\* C12: data_fetch creates exactly one worker task per item returned by the
\* search, starts every worker before waiting on any of them, and does not
\* return until every started worker has terminated.
C12_ForkJoin ==
    /\ df_pc \in {"starting", "joining", "returned"} =>
          /\ Len(df_tasks) = Len(df_items)
          /\ \A i \in DOMAIN df_runs : \E k \in DOMAIN df_items :
                df_items[k].name = df_runs[i].repo
          /\ Len(df_runs) = Cardinality({k \in DOMAIN df_tasks : df_tasks[k] = "done"})
    /\ df_pc \in {"joining", "returned"} =>
          \A k \in DOMAIN df_tasks : df_tasks[k] # "created"
    /\ df_pc = "starting" =>
          \A k \in DOMAIN df_tasks : k >= df_idx => df_tasks[k] = "created"
    /\ df_pc = "returned" =>
          /\ \A k \in DOMAIN df_tasks : df_tasks[k] = "done"
          /\ Len(df_runs) = Len(df_items)

\* C12 witness: data_fetch returned after three workers ran, the worker
\* started last having ended first.
C12_Witness ==
    /\ df_pc = "returned"
    /\ Len(df_items) = 3
    /\ df_runs[1].repo = df_items[3].name

\* The repositories the requested tests name as their inputs.
TestInputRepos(tests) ==
    UNION { Range(IF t.inputs.kind = "dict"
                  THEN DictValues(t.inputs.items) ELSE t.inputs.items) :
            t \in {u \in TestFile : \E i \in DOMAIN tests :
                                      tests[i] = u.workflow \o <<":">> \o u.test} }

\* C23: when data_fetch is given a non-empty tests list, the items it
\* fetches include every input repository named by each requested test.
C23_TestInputsFetched ==
    df_pc = "returned" /\ df_req.tests # <<>> =>
        \A repo \in TestInputRepos(df_req.tests) :
            \E i \in DOMAIN df_runs : df_runs[i].repo = repo

\* C28: a failure of the fetch run of a worker is not surfaced: the other
\* workers still run to completion and data_fetch returns without raising.
\* data_fetch raises only before any worker has run, and when it returns
\* every item has had its run, whatever the outcomes of the runs.
FailedRuns == {i \in DOMAIN df_runs : df_runs[i].outcome # "ok"}

C28_WorkerFailureNotSurfaced ==
    /\ df_pc \in {"raised", "exited"} => df_runs = <<>>
    /\ FailedRuns # {} => df_pc \in {"starting", "joining", "returned"}
    /\ df_pc = "returned" =>
          /\ Len(df_runs) = Len(df_items)
          /\ \A k \in DOMAIN df_items :
                \E i \in DOMAIN df_runs : df_runs[i].repo = df_items[k].name

\* C28 witness: data_fetch returned after three workers ran; the run that
\* ended first failed and the two after it succeeded.
C28_Witness ==
    /\ df_pc = "returned"
    /\ Len(df_runs) = 3
    /\ df_runs[1].outcome = "CalledProcessError"
    /\ df_runs[2].outcome = "ok"
    /\ df_runs[3].outcome = "ok"

(***************************************************************************)
(* BindMount construction and the test command                             *)
(***************************************************************************)
NoMountArgs == [src |-> <<>>, dst |-> <<>>, permissions |-> ""]
NoTestArgs == [logfile |-> "", compress_output |-> FALSE, quiet_fail |-> FALSE]

MountsIdle ==
    /\ bm_pc = "idle"
    /\ bm_args = NoMountArgs
    /\ bm_mount = NoMount
    /\ t_pc = "idle"
    /\ t_args = NoTestArgs
    /\ t_err = "none"
    /\ t_runs = <<>>

\* The permission strings a caller may pass.
PermissionArgs == {"ro", "rw", "malformed", "", "RW", "r", "wr"}
MountSources == { HostPath(<<"anything">>), HostPath(<<"cache">>) }
MountTargets == { ImagePath(<<"anything">>), ImagePath(<<"install", "output">>) }

\* A BindMount is constructed.
BindMountConstruct ==
    /\ bm_pc = "idle"
    /\ \E src \in MountSources, dst \in MountTargets,
          permissions \in PermissionArgs :
          LET mount == BindMount(src, dst, permissions)
          IN /\ bm_args' = [src |-> src, dst |-> dst, permissions |-> permissions]
             /\ IF mount.error = "none"
                THEN bm_pc' = "built" /\ bm_mount' = mount
                ELSE bm_pc' = "raised" /\ bm_mount' = NoMount
    /\ UNCHANGED <<t_pc, t_args, t_err, t_runs>>
    /\ MountsFrame

\* test_cmd + ["&&"] + file_cmd of the test command
test_command(args) ==
    <<"(", "ctest">>
    \o (IF ~args.compress_output THEN <<"--no-compress-output">> ELSE <<>>)
    \o (IF ~args.quiet_fail THEN <<"--output-on-failure">> ELSE <<>>)
    \o <<"-T", "Test", "||", "true", ")", "&&", "cp",
         "/tmp/build/Testing/*/Test.xml", <<"/tmp/Testing", args.logfile>> >>

\* The bind mount of the test command: src is given the path in the image
\* and dst the path on the host.
test_bind_mount ==
    BindMount(ImagePath(<<"/tmp/Testing">>), HostPath(<<"Testing", "Temps">>), "rw")

Logfiles == {"log.xml"}

\* test is called: the image is looked up, the command and the bind mount
\* are built and the backend run is invoked.
TestCall ==
    /\ CommandIdle
    /\ \E logfile \in Logfiles, compress_output \in BOOLEAN, quiet_fail \in BOOLEAN,
          found \in BOOLEAN :
          LET args == [logfile |-> logfile, compress_output |-> compress_output,
                       quiet_fail |-> quiet_fail]
          IN /\ t_args' = args
             /\ IF ~found
                THEN /\ t_pc' = "raised"
                     /\ t_err' = "ImageNotFoundError"
                     /\ UNCHANGED t_runs
                ELSE /\ t_pc' = "running"
                     /\ t_err' = "none"
                     /\ t_runs' = Append(t_runs,
                          [command |-> test_command(args),
                           mounts |-> mount_strings(<<test_bind_mount>>)])
    /\ UNCHANGED <<bm_pc, bm_args, bm_mount>>
    /\ MountsFrame

\* The backend run of test ends: test returns, or the error of the run
\* leaves it.
TestRunEnds ==
    /\ t_pc = "running"
    /\ \E outcome \in RunOutcomes :
          /\ t_pc' = IF outcome.exc = "ok" THEN "returned" ELSE "raised"
          /\ t_err' = IF outcome.exc = "ok" THEN "none" ELSE outcome.exc
    /\ UNCHANGED <<bm_pc, bm_args, bm_mount, t_args, t_runs>>
    /\ MountsFrame

BindMountNext ==
    \/ BindMountConstruct
    \/ TestCall
    \/ TestRunEnds

\* The commands that hand bind mounts to the backend: test, data_fetch and
\* run_workflow.
MountsNext ==
    \/ TestCall
    \/ TestRunEnds
    \/ DataFetchCall
    \/ DataFetchTests
    \/ FetchStart
    \/ FetchStarted
    \/ RequestDataItem
    \/ FetchJoin
    \/ FetchReturn
    \/ RunWorkflowCall
    \/ BackendRunEnds

(***************************************************************************)
(* Claims about bind mounts                                                *)
(***************************************************************************)
\* C17: BindMount construction fails with ValueError exactly when the
\* permission is neither "ro" nor "rw"; for "ro" and "rw" it succeeds and
\* the mount has the source, target and permission given.
C17_PermissionChecked ==
    bm_pc # "idle" =>
        IF bm_args.permissions \in {"ro", "rw"}
        THEN /\ bm_pc = "built"
             /\ bm_mount.src = bm_args.src
             /\ bm_mount.dst = bm_args.dst
             /\ bm_mount.permissions = bm_args.permissions
        ELSE bm_pc = "raised" /\ bm_mount = NoMount

\* C17 witness: a construction with the permission written in capitals
\* was refused.
C17_Witness ==
    /\ bm_pc = "raised"
    /\ bm_args.permissions = "RW"

\* The mount strings handed to the backend by test, data_fetch and
\* run_workflow.
MountsHanded ==
    UNION ({Range(t_runs[i].mounts) : i \in DOMAIN t_runs}
           \cup {Range(df_runs[i].mounts) : i \in DOMAIN df_runs}
           \cup {Range(run_log[i].mounts) : i \in DOMAIN run_log})

\* C18: every bind mount handed to the backend by test, data_fetch and
\* workflow_mounts serializes to "<host_path>:<container_path>:<ro|rw>",
\* the host-side path first and the in-container path second.
C18_MountStringFormat ==
    \A m \in MountsHanded :
        /\ Len(m) = 5
        /\ m[2] = ":" /\ m[4] = ":"
        /\ m[1][1] = "host"
        /\ m[3][1] = "image"
        /\ m[5] \in {"ro", "rw"}

(***************************************************************************)
(* Claims about the catalog search                                         *)
(***************************************************************************)
\* The item's name matches a glob of names or its tags hold a tag set of tags.
Wanted(item) ==
    \/ \E i \in DOMAIN se_names : GlobMatch(se_names[i], item.name)
    \/ \E i \in DOMAIN se_tags : se_tags[i] \subseteq item.tags

RequiredSet == Range(in_tables.required)

\* How many inputs of the test are the repository.
Needed(repo) ==
    Cardinality({i \in DOMAIN in_tables.required : in_tables.required[i] = repo})

\* How many of the user's arguments bind the repository: the one unlabeled
\* path of a test with one input, or each label of the repository.
UserBound(repo) ==
    IF in_parsed.kind = "str"
    THEN IF in_tables.required = <<repo>> THEN 1 ELSE 0
    ELSE Cardinality({i \in DOMAIN in_parsed.dict :
             /\ DictHas(in_tables.labels, in_parsed.dict[i][1])
             /\ DictGet(in_tables.labels, in_parsed.dict[i][1]) = repo})

\* Some cache directory given holds the repository.
Cached(repo) == \E i \in DOMAIN in_caches : repo \in cache_fs[in_caches[i]]

\* The required repositories not in a cache directory that the user bound
\* less often than the test requires them (for a test whose inputs are
\* distinct repositories: those the user did not label).
StillMissing ==
    {repo \in RequiredSet : ~Cached(repo) /\ UserBound(repo) < Needed(repo)}

BarePath(kvp_str) ==
    /\ ~check_input_kvp(kvp_str).error
    /\ Len(Split(Strip(kvp_str))) = 1

UserPaths(repo) ==
    {in_parsed.dict[i][2] : i \in {j \in DOMAIN in_parsed.dict :
        /\ DictHas(in_tables.labels, in_parsed.dict[j][1])
        /\ DictGet(in_tables.labels, in_parsed.dict[j][1]) = repo}}

\* The position of a cache directory in cache_dirs.
CachePos(cache_dir) == CHOOSE k \in DOMAIN in_caches : in_caches[k] = cache_dir

\* The cache directories before position k do not hold the repository.
NotBefore(repo, k) == \A j \in 1..(k - 1) : repo \notin cache_fs[in_caches[j]]

\* C26: a repository bound through a user label keeps the user's path and
\* is never rebound to a cache path; any other repository resolves to
\* <d>/<repo> for the earliest listed cache directory d that holds it; and
\* a cache directory is examined only while some repository the user did
\* not bind is unresolved by the directories before it.
C26_ResolutionPrecedence ==
    (in_result.kind = "ok" /\ in_parsed.kind = "dict") =>
        /\ \A repo \in RequiredSet :
              IF UserPaths(repo) # {}
              THEN DictGet(in_result.map, repo) \in UserPaths(repo)
              ELSE \E k \in DOMAIN in_caches :
                      /\ repo \in cache_fs[in_caches[k]]
                      /\ NotBefore(repo, k)
                      /\ DictGet(in_result.map, repo) = <<in_caches[k], "/", repo>>
        /\ \A i \in DOMAIN in_result.probed :
              \E repo \in RequiredSet :
                 /\ UserPaths(repo) = {}
                 /\ NotBefore(repo, CachePos(in_result.probed[i][1]))

\* The inputs of the test are distinct repositories.
DistinctInputs == Cardinality(RequiredSet) = Len(in_tables.required)

\* What does hold of the precedence: it is kept for every test whose
\* inputs are distinct repositories.
PrecedenceForDistinctInputs == DistinctInputs => C26_ResolutionPrecedence

\* The cache directories in which a probe found the repository.
HitDirs(repo) ==
    {in_result.probed[i][1] : i \in {j \in DOMAIN in_result.probed :
        /\ in_result.probed[j][2] = repo
        /\ repo \in cache_fs[in_result.probed[j][1]]}}

\* C27: no repository is resolved twice. When two of the labels the user
\* supplied refer to the same required repository, search_for_inputs
\* raises and returns no mapping; in a returned mapping each repository
\* was bound by exactly one supplied label or one cache hit.
C27_ResolvedOnce ==
    in_result.kind # "none" =>
        /\ (\E repo \in RequiredSet : UserBound(repo) >= 2) =>
              in_result.kind = "error" /\ in_result.map = <<>>
        /\ in_result.kind = "ok" =>
              \A repo \in RequiredSet :
                  UserBound(repo) + Cardinality(HitDirs(repo)) = 1

\* What does hold: no repository is resolved twice in a test whose inputs
\* are distinct repositories.
ResolvedOnceForDistinctInputs == DistinctInputs => C27_ResolvedOnce

(***************************************************************************)
(* Claims about workflow runs                                              *)
(***************************************************************************)
\* C1: once a run_workflow call made with no user-supplied scratch directory
\* has returned or raised, the temporary scratch directory made for it no
\* longer exists on the host (and no other temporary directory is left).
C1_TempScratchRemoved ==
    (wf_pc \in {"returned", "raised"} /\ wf_call.scratch = NoScratch) =>
        /\ wf_temp \notin fs_temp
        /\ fs_temp = {}

\* C1 witness: a call that made its temporary directory and then raised
\* because the backend run failed.
C1_Witness ==
    /\ wf_pc = "raised"
    /\ wf_err = "TestFailedError"
    /\ wf_call.scratch = NoScratch
    /\ wf_temp > 0

\* The tests of a series in depth-first listed order.
RECURSIVE DepthFirst(_)
DepthFirst(series) ==
    IF series = <<>>
    THEN <<>>
    ELSE (IF Head(series).series = <<>>
          THEN <<[workflow |-> Head(series).workflow,
                  runconfig |-> Head(series).runconfig]>>
          ELSE DepthFirst(Head(series).series))
         \o DepthFirst(Tail(series))

\* The tests whose backend run was invoked, in the order of the runs.
Ran ==
    [i \in DOMAIN run_log |->
        [workflow |-> run_log[i].workflow, runconfig |-> run_log[i].runconfig]]

IsPrefix(s, t) == Len(s) <= Len(t) /\ SubSeq(t, 1, Len(s)) = s

\* A test that passes validation: its workflow is recognized and its
\* runconfig exists.
RunnableTest(t) ==
    /\ get_workflow_object(t.workflow).class # "ValueError"
    /\ t.runconfig \in HostRunconfigs

\* C2: a multi test executes the tests of its series in listed order, one
\* after the other, also when a child is itself a nested multi test: the
\* runs made are a prefix of the depth-first order, and a series of runnable
\* tests none of whose runs failed has run them all when it ends.
C2_SeriesOrder ==
    wf_mode = "series" =>
        /\ IsPrefix(Ran, DepthFirst(ser_info))
        /\ (/\ ser_pc \in {"done", "raised"}
            /\ wf_outcome.exc \in {"none", "ok"}
            /\ \A i \in DOMAIN DepthFirst(ser_info) :
                  RunnableTest(DepthFirst(ser_info)[i]))
           => Ran = DepthFirst(ser_info)

\* C13: whenever the backend run invoked by run_workflow fails,
\* run_workflow raises TestFailedError with the backend's stderr text in
\* its message; no other error type escapes for a failed run.
C13_FailedRunRaisesTestFailed ==
    wf_outcome.exc \notin {"none", "ok"} =>
        /\ wf_pc = "raised"
        /\ wf_err = "TestFailedError"
        /\ wf_outcome.stderr \in Range(wf_msg)

\* A run_workflow call was made with a runconfig that is not on the host.
RunconfigMissing ==
    /\ wf_pc # "idle"
    /\ wf_call.runconfig \notin HostRunconfigs

\* The call failed with the runconfig-not-found error, its backend run was
\* never invoked and no temporary scratch directory is left.
FailedOnRunconfig ==
    /\ wf_pc = "raised"
    /\ wf_err = "ValueError"
    /\ wf_msg = <<"Runconfig not found", wf_call.runconfig>>
    /\ wf_outcome = NoOutcome
    /\ fs_temp = {}
    /\ \A i \in DOMAIN run_log : run_log[i].runconfig \in HostRunconfigs

\* C14 as stated: if the runconfig file does not exist at its expected host
\* location, run_workflow fails with the runconfig-not-found error, the
\* backend run is never invoked for that call and no temporary scratch
\* directory is left behind.
C14_RunconfigMissing == RunconfigMissing => FailedOnRunconfig

\* C14 amended: the same for a call whose workflow name is recognized; the
\* workflow name is resolved first, and an unrecognized name fails with the
\* workflow-not-recognized error whether or not the runconfig exists.
C14_RunconfigMissingRecognized ==
    RunconfigMissing =>
        IF get_workflow_object(wf_call.workflow).class # "ValueError"
        THEN FailedOnRunconfig
        ELSE /\ wf_pc = "raised"
             /\ wf_err = "ValueError"
             /\ wf_msg = <<"Workflow not recognized", wf_call.workflow>>
             /\ wf_outcome = NoOutcome
             /\ fs_temp = {}

\* C14 witness: the second child of a series has no runconfig on the host:
\* the call failed after the first child had run.
C14_Witness ==
    /\ wf_mode = "series"
    /\ Len(run_log) = 1
    /\ ser_idx = 2
    /\ wf_pc = "raised"
    /\ wf_msg = <<"Runconfig not found", "absent.yaml">>

\* A child of the series fails validation: its workflow name is not
\* recognized or its runconfig is missing.
BadChild(i) ==
    \/ get_workflow_object(ser_info[i].workflow).class = "ValueError"
    \/ ser_info[i].runconfig \notin HostRunconfigs

\* C15: for a series that contains a child with an unrecognized workflow
\* name or a missing runconfig, run_series_workflow raises before the
\* backend run has been invoked for any child of the series.
C15_NoPartialSeries ==
    (wf_mode = "series" /\ \E i \in DOMAIN ser_info : BadChild(i)) =>
        /\ run_log = <<>>
        /\ ser_pc # "done"

\* C29: a series stops at the first failing child. When the call for the
\* k-th child has raised, on validation or on its backend run, the error
\* has left run_series_workflow, the loop is still at k, the backend runs
\* invoked are those of the children up to k and of none after it, and no
\* temporary scratch directory of any child is left.
C29_SeriesStopsAtFailure ==
    wf_mode = "series" =>
        /\ wf_pc = "raised" <=> ser_pc = "raised"
        /\ ser_pc = "raised" =>
              /\ wf_err # "none"
              /\ ser_idx <= Len(ser_info)
              /\ Len(run_log) = IF wf_outcome.exc = "none"
                                THEN ser_idx - 1 ELSE ser_idx
              /\ \A i \in DOMAIN run_log :
                    run_log[i].workflow = ser_info[i].workflow
              /\ fs_temp = {}

\* C29 witness: of three children run with temporary scratch directories,
\* the first ran and the backend run of the second failed.
C29_Witness ==
    /\ wf_mode = "series"
    /\ ser_pc = "raised"
    /\ Len(ser_info) = 3
    /\ ser_idx = 2
    /\ wf_outcome.exc = "CalledProcessError"
    /\ wf_call.scratch = NoScratch
    /\ temp_made = 2
    /\ Len(run_log) = 2

\* C16: a series child naming "parallel" is never silently skipped: the
\* loop does not go past it, no backend run is made for it, the series
\* does not complete, and reaching it raises an error.
C16_ParallelRaises ==
    wf_mode = "series" =>
        \A i \in DOMAIN ser_info :
            ser_info[i].workflow = "parallel" =>
                /\ ser_idx <= i
                /\ ser_pc # "done"
                /\ \A j \in DOMAIN run_log : run_log[j].workflow # "parallel"
                /\ (ser_idx = i /\ wf_call.workflow = "parallel") =>
                      ser_pc = "raised" /\ wf_err = "ValueError"

\* C16 witness: the series ran its first child and raised at its second,
\* which names "parallel".
C16_Witness ==
    /\ wf_mode = "series"
    /\ ser_idx = 2
    /\ Len(run_log) = 1
    /\ Len(ser_info) >= 2
    /\ ser_info[2].workflow = "parallel"
    /\ ser_pc = "raised"
    /\ wf_msg = <<"Workflow not recognized", "parallel">>

\* The generic module invocation of a workflow name.
GenericCommand(workflow_name, runconfig) ==
    <<"python -m nisar.workflows.",
      IF workflow_name = "rslc" THEN "focus" ELSE workflow_name, " ", runconfig>>

\* C19: the command resolved for "insar" is the generic module invocation
\* with the restart flag appended; for gslc, gcov and rslc no restart flag
\* is appended.
C19_InsarRestart ==
    \A i \in DOMAIN run_log :
        LET run == run_log[i]
        IN /\ run.workflow = "insar" =>
                 run.command = GenericCommand("insar", run.runconfig)
                                  \o <<" -- restart">>
           /\ run.workflow \in {"gslc", "gcov", "rslc"} =>
                 run.command = GenericCommand(run.workflow, run.runconfig)

\* The mounts of a list whose image side is the given path.
MountsAt(bind_mounts, dst) ==
    {k \in DOMAIN bind_mounts : bind_mounts[k].dst = ImagePath(dst)}

\* C20: every mount list yielded by workflow_mounts has exactly one output
\* mount with permission rw, one runconfig mount with permission ro, one ro
\* mount per entry of the input map and one scratch mount with permission
\* rw, 3 + number of inputs mounts in all; no input or runconfig mount is rw.
C20_MountList ==
    \A i \in DOMAIN run_log :
        LET run == run_log[i]
            bm == run.bind_mounts
            output == MountsAt(bm, <<"install", "output">>)
            runconfig == MountsAt(bm, <<"install", run.runconfig>>)
            scratch == MountsAt(bm, <<"install", "scratch", run.workflow>>)
            inputs == UNION {MountsAt(bm, <<"install", "input", wf_call.inputs[r]>>) :
                                r \in DOMAIN wf_call.inputs}
        IN /\ Len(bm) = 3 + Len(wf_call.inputs)
           /\ \A k \in DOMAIN bm : bm[k].error = "none"
           /\ Cardinality(output) = 1
           /\ Cardinality(runconfig) = 1
           /\ Cardinality(scratch) = 1
           /\ Cardinality(inputs) = Len(wf_call.inputs)
           /\ \A r \in DOMAIN wf_call.inputs :
                 Cardinality(MountsAt(bm, <<"install", "input", wf_call.inputs[r]>>)) = 1
           /\ output \cup runconfig \cup scratch \cup inputs = DOMAIN bm
           /\ \A k \in output \cup scratch : bm[k].permissions = "rw"
           /\ \A k \in runconfig \cup inputs : bm[k].permissions = "ro"

\* C20 witness: a run was invoked with the mounts of a test that has two
\* inputs and a user-supplied scratch directory.
C20_Witness ==
    /\ Len(run_log) > 0
    /\ Len(wf_call.inputs) = 2
    /\ wf_call.scratch # NoScratch
    /\ Len(run_log[1].bind_mounts) = 5

\* C21: a scratch directory the caller supplied is made, with its
\* workflow/test subdirectory, by the time the backend run is invoked, and
\* the output directory is made as soon as workflow_mounts is entered;
\* neither is deleted: after run_workflow has returned or raised, the
\* directories made for this run and for every earlier run are still there.
OutputDirOf(call) == <<"output">> \o test_subdir(call)

ScratchDirOf(call) == <<call.scratch>> \o test_subdir(call)

EnteredMounts ==
    /\ wf_pc \in {"running", "returned", "raised"}
    /\ get_workflow_object(wf_call.workflow).class # "ValueError"

EnteredBody ==
    /\ EnteredMounts
    /\ wf_pc = "raised" => wf_outcome.exc # "none"

PrefixHyphen == universal_tag_prefix \o <<"-">>

\* C3: every successful build_all call with a repo argument (copy_path
\* null) returns a map of exactly 4 entries whose keys are resolve(t)
\* followed by -git-repo, -configured, -built and -installed, where
\* resolve(t) carries the prefix once, also when t was already prefixed.
C3_BuildAllKeys ==
    (b_pc = "returned" /\ b_args.copy_path = NoPath) =>
        /\ Len(b_result) = 4
        /\ Cardinality(Range(b_result)) = 4
        /\ Range(b_result) =
              { resolve(b_args.tag) \o GitRepoSuffix,
                resolve(b_args.tag) \o ConfiguredSuffix,
                resolve(b_args.tag) \o BuiltSuffix,
                resolve(b_args.tag) \o InstalledSuffix }

\* C4: build_all issues its backend builds in the order source, configure,
\* compile, install; the source stage is built from the given base and
\* every later stage from the tag the stage before it produced.
C4_StageChain ==
    /\ Len(b_log) <= 4
    /\ \A i \in DOMAIN b_log :
          /\ i = 1 => /\ b_log[i].stage \in {"clone", "insert"}
                      /\ b_log[i].base = b_args.base
          /\ i = 2 => b_log[i].stage = "configure"
          /\ i = 3 => b_log[i].stage = "compile"
          /\ i = 4 => b_log[i].stage = "install"
          /\ i > 1 => b_log[i].base = b_log[i - 1].tag

\* C4 witness: a build_all call that built all four stages and returned.
C4_Witness == b_pc = "returned" /\ Len(b_log) = 4

\* The backend builds of a stage issued so far.
BuildsOf(stage) == {i \in DOMAIN b_log : b_log[i].stage = stage}

BuildAllOver == b_pc \in {"returned", "raised"}

C30_BuildStopsAtFailure ==
    /\ \A i \in DOMAIN b_log :
          ~b_log[i].ok =>
              /\ i = Len(b_log)
              /\ b_pc = "raised"
              /\ b_stage = i
    /\ b_pc = "raised" => b_result = NoResult
    /\ b_result # NoResult => b_pc = "returned" /\ \A i \in DOMAIN b_log : b_log[i].ok

\* C30 witness: the source stage was built and the build of configure
\* failed.
C30_Witness ==
    /\ b_pc = "raised"
    /\ Len(b_log) = 2
    /\ b_log[1].ok
    /\ ~b_log[2].ok
    /\ b_log[2].stage = "configure"
    /\ b_result = NoResult

\* C5: prefixing is idempotent: a command given the tag another command
\* resolved hands that same tag to the backend,
\* resolve(resolve(t)) = resolve(t).
C5_ResolveIdempotent ==
    (/\ Len(tag_hist) = 2
     /\ ~tag_ignore
     /\ tag_hist[2].arg = tag_hist[1].img) =>
        tag_hist[2].img = tag_hist[1].img

\* C5 witness: a tag to which the first command added the prefix was
\* passed through a second command.
C5_Witness ==
    /\ Len(tag_hist) = 2
    /\ ~tag_ignore
    /\ tag_hist[2].arg = tag_hist[1].img
    /\ tag_hist[1].img # tag_hist[1].arg

\* C6: unless the caller asked to ignore the prefix, the resolved tag has
\* the form <prefix>-<rest>: it begins with the prefix followed by a
\* hyphen, and the prefix is applied exactly once (the tag is the argument
\* itself or the argument behind one prefix).
C6_SinglePrefixForm ==
    \A i \in DOMAIN tag_hist :
        ~tag_ignore =>
            /\ StartsWith(tag_hist[i].img, PrefixHyphen)
            /\ \/ tag_hist[i].img = tag_hist[i].arg
               \/ tag_hist[i].img = PrefixHyphen \o tag_hist[i].arg

(***************************************************************************)
(* Specifications                                                          *)
(***************************************************************************)
InitTag == TagInit /\ BuildIdle /\ WorkflowIdle /\ InputsIdle /\ SearchIdle /\ FetchIdle /\ MountsIdle /\ DockerGitIdle /\ DistribIdle
SpecTag == InitTag /\ [][TagNext]_vars

InitBuild == TagIdle /\ BuildIdle /\ WorkflowIdle /\ InputsIdle /\ SearchIdle /\ FetchIdle /\ MountsIdle /\ DockerGitIdle /\ DistribIdle
SpecBuild == InitBuild /\ [][BuildNext]_vars

InitWorkflow == TagIdle /\ BuildIdle /\ WorkflowIdle /\ InputsIdle /\ SearchIdle /\ FetchIdle /\ MountsIdle /\ DockerGitIdle /\ DistribIdle
SpecWorkflow == InitWorkflow /\ [][WorkflowNext]_vars

InitInputs == TagIdle /\ BuildIdle /\ WorkflowIdle /\ InputsInit /\ SearchIdle /\ FetchIdle /\ MountsIdle /\ DockerGitIdle /\ DistribIdle
SpecInputs == InitInputs /\ [][InputsNext]_vars

InitSearch == TagIdle /\ BuildIdle /\ WorkflowIdle /\ InputsIdle /\ SearchInit /\ FetchIdle /\ MountsIdle /\ DockerGitIdle /\ DistribIdle
SpecSearch == InitSearch /\ [][SearchNext]_vars

InitFetch == TagIdle /\ BuildIdle /\ WorkflowIdle /\ InputsIdle /\ SearchIdle /\ FetchIdle /\ MountsIdle /\ DockerGitIdle /\ DistribIdle
SpecFetch == InitFetch /\ [][FetchNext]_vars

InitBindMount == TagIdle /\ BuildIdle /\ WorkflowIdle /\ InputsIdle /\ SearchIdle /\ FetchIdle /\ MountsIdle /\ DockerGitIdle /\ DistribIdle
SpecBindMount == InitBindMount /\ [][BindMountNext]_vars

InitMounts == TagIdle /\ BuildIdle /\ WorkflowIdle /\ InputsIdle /\ SearchIdle /\ FetchIdle /\ MountsIdle /\ DockerGitIdle /\ DistribIdle
SpecMounts == InitMounts /\ [][MountsNext]_vars

InitDockerGit == TagIdle /\ BuildIdle /\ WorkflowIdle /\ InputsIdle /\ SearchIdle /\ FetchIdle /\ MountsIdle /\ DockerGitInit /\ DistribIdle
SpecDockerGit == InitDockerGit /\ [][DockerGitNext]_vars

InitDistrib == TagIdle /\ BuildIdle /\ WorkflowIdle /\ InputsIdle /\ SearchIdle /\ FetchIdle /\ MountsIdle /\ DockerGitIdle /\ DistribInit
SpecDistrib == InitDistrib /\ [][DistribNext]_vars

====
